---- MODULE Spec2Model ----
(***************************************************************************)
(* WiSafe2 FireAngel bridge: the coordinator (coordinator.py), the device  *)
(* class and the entity predicates of binary_sensor.py, as a state         *)
(* machine.                                                                *)
(*                                                                         *)
(* Representation of Python values.  A str is the sequence of its          *)
(* characters, so that lower(), upper(), `in` and f-string formatting are  *)
(* computed on the text.  None, True and False, where a Python expression  *)
(* can yield them next to a str, are the one-element sequences <<"None">>, *)
(* <<"True">>, <<"False">>, which no text equals (a character is a string  *)
(* of length one).  A datetime is a number of seconds; NoTime stands for   *)
(* the None of an Optional[datetime].  A dict with str keys is a function  *)
(* whose domain is the set of its keys.                                    *)
(***************************************************************************)
EXTENDS Integers, Sequences, FiniteSets, TLC

None    == <<"None">>
PyTrue  == <<"True">>
PyFalse == <<"False">>
NoTime  == -1

(***************************************************************************)
(* Texts that occur in the source or in the messages fed to the model.     *)
(***************************************************************************)
S_heartbeat == <<"h", "e", "a", "r", "t", "b", "e", "a", "t">>
S_test == <<"t", "e", "s", "t">>
S_emergency == <<"e", "m", "e", "r", "g", "e", "n", "c", "y">>
S_status == <<"s", "t", "a", "t", "u", "s">>
S_missing == <<"m", "i", "s", "s", "i", "n", "g">>
S_pairing == <<"p", "a", "i", "r", "i", "n", "g">>
S_unknown == <<"u", "n", "k", "n", "o", "w", "n">>
S_low == <<"l", "o", "w">>
S_LOW == <<"L", "O", "W">>
S_ok == <<"o", "k">>
S_removed == <<"r", "e", "m", "o", "v", "e", "d">>
S_OFF_BASE == <<"O", "F", "F", "_", "B", "A", "S", "E">>
S_on_base == <<"o", "n", "_", "b", "a", "s", "e">>
S_EMERGENCY_prefix == <<"E", "M", "E", "R", "G", "E", "N", "C", "Y", ":", " ">>
S_colon_space == <<":", " ">>
S_FIRE == <<"F", "I", "R", "E">>
S_CO == <<"C", "O">>
S_FIRE_EMERGENCY == <<"F", "I", "R", "E", " ", "E", "M", "E", "R", "G", "E", "N", "C", "Y">>
S_fire_emergency_lc == <<"F", "i", "r", "e", " ", "E", "m", "e", "r", "g", "e", "n", "c", "y">>
S_CARBON_MONOXIDE_EMERGENCY == <<"C", "A", "R", "B", "O", "N", " ", "M", "O", "N", "O", "X", "I", "D", "E", " ",
     "E", "M", "E", "R", "G", "E", "N", "C", "Y">>
S_fail == <<"f", "a", "i", "l">>
S_pass == <<"p", "a", "s", "s">>
S_FAILED == <<"F", "A", "I", "L", "E", "D">>
S_off_base == <<"o", "f", "f", "_", "b", "a", "s", "e">>
S_D1 == <<"D", "1">>
S_D2 == <<"D", "2">>
S_bridge == <<"b", "r", "i", "d", "g", "e">>
S_WiSafe2_Bridge == <<"W", "i", "S", "a", "f", "e", "2", " ", "B", "r", "i", "d", "g", "e">>
S_Hall == <<"H", "a", "l", "l">>
S_Kitchen_Alarm == <<"K", "i", "t", "c", "h", "e", "n", " ", "A", "l", "a", "r", "m">>
S_FFFF == <<"F", "F", "F", "F">>
S_1103 == <<"1", "1", "0", "3">>
S_1104 == <<"1", "1", "0", "4">>
S_E702 == <<"E", "7", "0", "2">>
S_emergency_suffix == <<"_", "e", "m", "e", "r", "g", "e", "n", "c", "y">>
S_device_missing_suffix == <<"_", "d", "e", "v", "i", "c", "e", "_", "m", "i", "s", "s", "i", "n", "g">>
S_noise == <<"W", "i", "S", "a", "f", "e", "2", " ", "r", "e", "a", "d", "y">>
S_brace_garbage == <<"{", "o", "o", "p", "s">>

(***************************************************************************)
(* const.py                                                                *)
(***************************************************************************)
HEARTBEAT_TIMEOUT == 35
WISAFE2_DOMAIN == <<"w", "i", "s", "a", "f", "e", "2">>
DEVICE_TYPE_SMOKE == <<"s", "m", "o", "k", "e">>
DEVICE_TYPE_HEAT == <<"h", "e", "a", "t">>
DEVICE_TYPE_CO == <<"c", "o">>
DEVICE_TYPE_STROBE == <<"s", "t", "r", "o", "b", "e">>
DEVICE_TYPE_COMBINED == <<"c", "o", "m", "b", "i", "n", "e", "d">>
DEVICE_TYPE_BRIDGE == <<"b", "r", "i", "d", "g", "e">>
DEVICE_TYPE_SIREN == <<"s", "i", "r", "e", "n">>
DEVICE_TYPE_WATER == <<"w", "a", "t", "e", "r">>
DEVICE_TYPE_UNKNOWN == <<"u", "n", "k", "n", "o", "w", "n">>
CMD_TEST_CO == <<"1", "~">>
CMD_TEST_SMOKE == <<"2", "~">>
CMD_TEST_ALL == <<"3", "~">>
CMD_EMERGENCY_CO == <<"4", "~">>
CMD_EMERGENCY_SMOKE == <<"5", "~">>
CMD_SILENCE_CO == <<"6", "~">>
CMD_SILENCE_SMOKE == <<"7", "~">>
CMD_GET_PAIRING == <<"8", "~">>
CMD_START_PAIRING == <<"9", "~">>
DEVICE_MODELS ==
  (<<"E", "7", "0", "2">> :> [name |-> <<"W", "S", "M", "-", "1">>, type |-> DEVICE_TYPE_SMOKE]) @@
  (<<"1", "1", "0", "3">> :> [name |-> <<"W", "S", "T", "-", "6", "3", "0">>, type |-> DEVICE_TYPE_COMBINED]) @@
  (<<"7", "8", "0", "3">> :> [name |-> <<"W", "2", "-", "C", "O", "-", "1", "0", "X", " ", "#", "1">>, type |-> DEVICE_TYPE_CO]) @@
  (<<"8", "B", "0", "3">> :> [name |-> <<"W", "2", "-", "S", "V", "P", "-", "6", "3", "0", " ", "#", "1">>, type |-> DEVICE_TYPE_STROBE]) @@
  (<<"A", "2", "0", "3">> :> [name |-> <<"W", "2", "-", "L", "F", "S", "-", "6", "3", "0">>, type |-> DEVICE_TYPE_SIREN]) @@
  (<<"F", "E", "0", "3">> :> [name |-> <<"I", "F", "G", "-", "1", "0", "0">>, type |-> DEVICE_TYPE_UNKNOWN]) @@
  (<<"1", "1", "0", "4">> :> [name |-> <<"W", "H", "T", "-", "6", "3", "0">>, type |-> DEVICE_TYPE_HEAT]) @@
  (<<"1", "4", "0", "4">> :> [name |-> <<"W", "H", "M", "-", "1">>, type |-> DEVICE_TYPE_HEAT]) @@
  (<<"1", "C", "0", "4">> :> [name |-> <<"I", "F", "G", "-", "2", "0", "0">>, type |-> DEVICE_TYPE_UNKNOWN]) @@
  (<<"4", "5", "0", "4">> :> [name |-> <<"W", "2", "-", "T", "S", "L">>, type |-> DEVICE_TYPE_UNKNOWN]) @@
  (<<"7", "C", "0", "4">> :> [name |-> <<"S", "T", "-", "6", "3", "0", "-", "D", "E">>, type |-> DEVICE_TYPE_SMOKE]) @@
  (<<"8", "5", "0", "4">> :> [name |-> <<"W", "E", "T", "A", "-", "1", "0", "X">>, type |-> DEVICE_TYPE_WATER]) @@
  (<<"C", "3", "0", "4">> :> [name |-> <<"W", "2", "-", "S", "V", "P", "-", "6", "3", "0", " ", "#", "2">>, type |-> DEVICE_TYPE_STROBE]) @@
  (<<"0", "3", "0", "1">> :> [name |-> <<"W", "2", "-", "C", "O", "-", "1", "0", "X", " ", "#", "2">>, type |-> DEVICE_TYPE_CO]) @@
  (<<"0", "4", "0", "1">> :> [name |-> <<"F", "P", "2", "6", "2", "0", "W", "2">>, type |-> DEVICE_TYPE_SMOKE]) @@
  (<<"0", "5", "0", "1">> :> [name |-> <<"F", "P", "1", "7", "2", "0", "W", "2">>, type |-> DEVICE_TYPE_HEAT]) @@
  (<<"0", "6", "0", "1">> :> [name |-> <<"W", "2", "-", "S", "V", "P", "-", "6", "3", "0", " ", "#", "3">>, type |-> DEVICE_TYPE_STROBE])

(***************************************************************************)
(* Python built-ins used by the source.                                    *)
(***************************************************************************)
LowerChar(c) ==
  CASE c = "A" -> "a"
    [] c = "B" -> "b"
    [] c = "C" -> "c"
    [] c = "D" -> "d"
    [] c = "E" -> "e"
    [] c = "F" -> "f"
    [] c = "G" -> "g"
    [] c = "H" -> "h"
    [] c = "I" -> "i"
    [] c = "J" -> "j"
    [] c = "K" -> "k"
    [] c = "L" -> "l"
    [] c = "M" -> "m"
    [] c = "N" -> "n"
    [] c = "O" -> "o"
    [] c = "P" -> "p"
    [] c = "Q" -> "q"
    [] c = "R" -> "r"
    [] c = "S" -> "s"
    [] c = "T" -> "t"
    [] c = "U" -> "u"
    [] c = "V" -> "v"
    [] c = "W" -> "w"
    [] c = "X" -> "x"
    [] c = "Y" -> "y"
    [] c = "Z" -> "z"
    [] OTHER -> c
UpperChar(c) ==
  CASE c = "a" -> "A"
    [] c = "b" -> "B"
    [] c = "c" -> "C"
    [] c = "d" -> "D"
    [] c = "e" -> "E"
    [] c = "f" -> "F"
    [] c = "g" -> "G"
    [] c = "h" -> "H"
    [] c = "i" -> "I"
    [] c = "j" -> "J"
    [] c = "k" -> "K"
    [] c = "l" -> "L"
    [] c = "m" -> "M"
    [] c = "n" -> "N"
    [] c = "o" -> "O"
    [] c = "p" -> "P"
    [] c = "q" -> "Q"
    [] c = "r" -> "R"
    [] c = "s" -> "S"
    [] c = "t" -> "T"
    [] c = "u" -> "U"
    [] c = "v" -> "V"
    [] c = "w" -> "W"
    [] c = "x" -> "X"
    [] c = "y" -> "Y"
    [] c = "z" -> "Z"
    [] OTHER -> c

\* str.lower(), str.upper()
Lower(s) == [i \in 1..Len(s) |-> LowerChar(s[i])]
Upper(s) == [i \in 1..Len(s) |-> UpperChar(s[i])]

\* `sub in s` for two str
Contains(sub, s) ==
  \E i \in 0..(Len(s) - Len(sub)) : SubSeq(s, i + 1, i + Len(sub)) = sub

\* truth value of a str, None or a bool
Truthy(v) == v # None /\ v # <<>> /\ v # PyFalse

\* faulty variant of `a or b`: the first operand that is not None
PyOr_first_non_null(a, b) == IF a # None THEN a ELSE b

\* `a or b`
PyOr(a, b) == IF Truthy(a) THEN a ELSE b

\* `a and b`
PyAnd(a, b) == IF Truthy(a) THEN b ELSE a

\* bool as a Python value
PyBool(b) == IF b THEN PyTrue ELSE PyFalse

\* truth value of any value an entity property returns
IsTrue(v) == v = PyTrue

\* str(v) as an f-string renders it
PyStr(v) == IF v = None THEN <<"N", "o", "n", "e">> ELSE v

\* faulty variant of dict.get(k, default): the default left out
GetDefault_no_default(data, k, default) == IF k \in DOMAIN data THEN data[k] ELSE None

\* dict.get(k), dict.get(k, default), `k in d`
HasKey(data, k) == k \in DOMAIN data
Get(data, k) == IF k \in DOMAIN data THEN data[k] ELSE None
GetDefault(data, k, default) == IF k \in DOMAIN data THEN data[k] ELSE default

(***************************************************************************)
(* class WiSafe2Device                                                     *)
(***************************************************************************)
\* WiSafe2Device.__init__
WiSafe2Device(device_id, model_id) ==
  LET known == Truthy(model_id) /\ model_id \in DOMAIN DEVICE_MODELS IN
  [ device_id        |-> device_id,
    model_id         |-> model_id,
    name             |-> IF known THEN DEVICE_MODELS[model_id].name ELSE None,
    location         |-> None,
    device_type      |-> IF known THEN DEVICE_MODELS[model_id].type ELSE None,
    last_seen        |-> NoTime,
    battery_status   |-> S_unknown,
    base_status      |-> S_unknown,
    last_event       |-> None,
    last_test_result |-> None,
    is_online        |-> TRUE ]

\* WiSafe2Device.update_from_message
update_from_message(device, data, t) ==
  [ device EXCEPT
      !.last_seen        = t,
      !.battery_status   = IF HasKey(data, "battery") THEN data["battery"] ELSE @,
      !.base_status      = IF HasKey(data, "base") THEN data["base"] ELSE @,
      !.last_event       = IF HasKey(data, "event") THEN data["event"] ELSE @,
      !.last_test_result = IF HasKey(data, "test_result") THEN data["test_result"] ELSE @ ]

(***************************************************************************)
(* binary_sensor.py: the entity predicates over a device                   *)
(***************************************************************************)
\* WiSafe2DeviceConnectivitySensor.is_on
ConnectivitySensor_is_on(device) == device.is_online

\* WiSafe2DeviceProblemSensor.is_on: `battery_low or off_base or test_failed`
\* yields the last operand when the first two are False
ProblemSensor_is_on(device) ==
  LET battery_low == Lower(device.battery_status) = S_low
      off_base    == Lower(device.base_status) \in {S_removed, S_off_base}
      test_failed == IF Truthy(device.last_test_result)
                     THEN PyBool(Contains(S_fail, Lower(device.last_test_result)))
                     ELSE device.last_test_result
  IN  IF battery_low \/ off_base THEN PyTrue ELSE test_failed

\* WiSafe2DeviceSmokeSensor.is_on
SmokeSensor_is_on(device) ==
  LET event == device.last_event IN
  IF Truthy(event) THEN Contains(S_FIRE_EMERGENCY, Upper(event)) ELSE FALSE

\* WiSafe2DeviceCOSensor.is_on
COSensor_is_on(device) ==
  LET event == device.last_event IN
  IF Truthy(event) THEN Contains(S_CARBON_MONOXIDE_EMERGENCY, Upper(event)) ELSE FALSE

(***************************************************************************)
(* The serial line: bytes.decode, str.strip, str.startswith, json          *)
(***************************************************************************)
\* a JSON array as a Python value: a list, which is not hashable
PyList == <<"List">>

Whitespace == {" ", "\t", "\r", "\n"}

RECURSIVE LStrip(_)
LStrip(s) == IF s # <<>> /\ Head(s) \in Whitespace THEN LStrip(Tail(s)) ELSE s

RECURSIVE RStrip(_)
RStrip(s) ==
  IF s # <<>> /\ s[Len(s)] \in Whitespace THEN RStrip(SubSeq(s, 1, Len(s) - 1)) ELSE s

\* str.strip()
Strip(s) == RStrip(LStrip(s))

\* str.startswith(prefix)
StartsWith(s, prefix) ==
  Len(s) >= Len(prefix) /\ SubSeq(s, 1, Len(prefix)) = prefix

\* the wire text of each JSON frame, the object json.loads gives for it and
\* the text json.dumps gives for that object
T_status_D1 == <<"{", "\"", "d", "e", "v", "i", "c", "e", "_", "i", "d", "\"", ":", "\"", "D", "1",
     "\"", ",", "\"", "m", "o", "d", "e", "l", "_", "i", "d", "\"", ":", "\"", "1", "1",
     "0", "3", "\"", ",", "\"", "t", "y", "p", "e", "\"", ":", "\"", "s", "t", "a", "t",
     "u", "s", "\"", ",", "\"", "b", "a", "t", "t", "e", "r", "y", "\"", ":", "\"", "l",
     "o", "w", "\"", ",", "\"", "b", "a", "s", "e", "\"", ":", "\"", "r", "e", "m", "o",
     "v", "e", "d", "\"", "}">>
O_status_D1 ==
  [ device_id |-> <<"D", "1">>,
    model_id |-> <<"1", "1", "0", "3">>,
    type |-> <<"s", "t", "a", "t", "u", "s">>,
    battery |-> <<"l", "o", "w">>,
    base |-> <<"r", "e", "m", "o", "v", "e", "d">> ]
J_status_D1 == <<"{", "\"", "d", "e", "v", "i", "c", "e", "_", "i", "d", "\"", ":", " ", "\"", "D",
     "1", "\"", ",", " ", "\"", "m", "o", "d", "e", "l", "_", "i", "d", "\"", ":", " ",
     "\"", "1", "1", "0", "3", "\"", ",", " ", "\"", "t", "y", "p", "e", "\"", ":", " ",
     "\"", "s", "t", "a", "t", "u", "s", "\"", ",", " ", "\"", "b", "a", "t", "t", "e",
     "r", "y", "\"", ":", " ", "\"", "l", "o", "w", "\"", ",", " ", "\"", "b", "a", "s",
     "e", "\"", ":", " ", "\"", "r", "e", "m", "o", "v", "e", "d", "\"", "}">>
T_status_bare_D1 == <<"{", "\"", "d", "e", "v", "i", "c", "e", "_", "i", "d", "\"", ":", "\"", "D", "1",
     "\"", ",", "\"", "t", "y", "p", "e", "\"", ":", "\"", "s", "t", "a", "t", "u", "s",
     "\"", "}">>
O_status_bare_D1 ==
  [ device_id |-> <<"D", "1">>,
    type |-> <<"s", "t", "a", "t", "u", "s">> ]
J_status_bare_D1 == <<"{", "\"", "d", "e", "v", "i", "c", "e", "_", "i", "d", "\"", ":", " ", "\"", "D",
     "1", "\"", ",", " ", "\"", "t", "y", "p", "e", "\"", ":", " ", "\"", "s", "t", "a",
     "t", "u", "s", "\"", "}">>
T_status_both_ids == <<"{", "\"", "d", "e", "v", "i", "c", "e", "I", "d", "\"", ":", "\"", "D", "2", "\"",
     ",", "\"", "d", "e", "v", "i", "c", "e", "_", "i", "d", "\"", ":", "\"", "D", "1",
     "\"", ",", "\"", "m", "o", "d", "e", "l", "I", "d", "\"", ":", "\"", "E", "7", "0",
     "2", "\"", ",", "\"", "m", "o", "d", "e", "l", "_", "i", "d", "\"", ":", "\"", "1",
     "1", "0", "3", "\"", ",", "\"", "t", "y", "p", "e", "\"", ":", "\"", "s", "t", "a",
     "t", "u", "s", "\"", ",", "\"", "b", "a", "t", "t", "e", "r", "y", "\"", ":", "\"",
     "o", "k", "\"", ",", "\"", "b", "a", "s", "e", "\"", ":", "\"", "O", "F", "F", "_",
     "B", "A", "S", "E", "\"", "}">>
O_status_both_ids ==
  [ deviceId |-> <<"D", "2">>,
    device_id |-> <<"D", "1">>,
    modelId |-> <<"E", "7", "0", "2">>,
    model_id |-> <<"1", "1", "0", "3">>,
    type |-> <<"s", "t", "a", "t", "u", "s">>,
    battery |-> <<"o", "k">>,
    base |-> <<"O", "F", "F", "_", "B", "A", "S", "E">> ]
J_status_both_ids == <<"{", "\"", "d", "e", "v", "i", "c", "e", "I", "d", "\"", ":", " ", "\"", "D", "2",
     "\"", ",", " ", "\"", "d", "e", "v", "i", "c", "e", "_", "i", "d", "\"", ":", " ",
     "\"", "D", "1", "\"", ",", " ", "\"", "m", "o", "d", "e", "l", "I", "d", "\"", ":",
     " ", "\"", "E", "7", "0", "2", "\"", ",", " ", "\"", "m", "o", "d", "e", "l", "_",
     "i", "d", "\"", ":", " ", "\"", "1", "1", "0", "3", "\"", ",", " ", "\"", "t", "y",
     "p", "e", "\"", ":", " ", "\"", "s", "t", "a", "t", "u", "s", "\"", ",", " ", "\"",
     "b", "a", "t", "t", "e", "r", "y", "\"", ":", " ", "\"", "o", "k", "\"", ",", " ",
     "\"", "b", "a", "s", "e", "\"", ":", " ", "\"", "O", "F", "F", "_", "B", "A", "S",
     "E", "\"", "}">>
T_missing_D1 == <<"{", "\"", "d", "e", "v", "i", "c", "e", "_", "i", "d", "\"", ":", "\"", "D", "1",
     "\"", ",", "\"", "t", "y", "p", "e", "\"", ":", "\"", "m", "i", "s", "s", "i", "n",
     "g", "\"", "}">>
O_missing_D1 ==
  [ device_id |-> <<"D", "1">>,
    type |-> <<"m", "i", "s", "s", "i", "n", "g">> ]
J_missing_D1 == <<"{", "\"", "d", "e", "v", "i", "c", "e", "_", "i", "d", "\"", ":", " ", "\"", "D",
     "1", "\"", ",", " ", "\"", "t", "y", "p", "e", "\"", ":", " ", "\"", "m", "i", "s",
     "s", "i", "n", "g", "\"", "}">>
T_missing_D2 == <<"{", "\"", "d", "e", "v", "i", "c", "e", "_", "i", "d", "\"", ":", "\"", "D", "2",
     "\"", ",", "\"", "t", "y", "p", "e", "\"", ":", "\"", "m", "i", "s", "s", "i", "n",
     "g", "\"", "}">>
O_missing_D2 ==
  [ device_id |-> <<"D", "2">>,
    type |-> <<"m", "i", "s", "s", "i", "n", "g">> ]
J_missing_D2 == <<"{", "\"", "d", "e", "v", "i", "c", "e", "_", "i", "d", "\"", ":", " ", "\"", "D",
     "2", "\"", ",", " ", "\"", "t", "y", "p", "e", "\"", ":", " ", "\"", "m", "i", "s",
     "s", "i", "n", "g", "\"", "}">>
T_missing_bridge == <<"{", "\"", "d", "e", "v", "i", "c", "e", "_", "i", "d", "\"", ":", "\"", "b", "r",
     "i", "d", "g", "e", "\"", ",", "\"", "t", "y", "p", "e", "\"", ":", "\"", "m", "i",
     "s", "s", "i", "n", "g", "\"", "}">>
O_missing_bridge ==
  [ device_id |-> <<"b", "r", "i", "d", "g", "e">>,
    type |-> <<"m", "i", "s", "s", "i", "n", "g">> ]
J_missing_bridge == <<"{", "\"", "d", "e", "v", "i", "c", "e", "_", "i", "d", "\"", ":", " ", "\"", "b",
     "r", "i", "d", "g", "e", "\"", ",", " ", "\"", "t", "y", "p", "e", "\"", ":", " ",
     "\"", "m", "i", "s", "s", "i", "n", "g", "\"", "}">>
T_emergency_fire_D1 == <<"{", "\"", "d", "e", "v", "i", "c", "e", "_", "i", "d", "\"", ":", "\"", "D", "1",
     "\"", ",", "\"", "t", "y", "p", "e", "\"", ":", "\"", "e", "m", "e", "r", "g", "e",
     "n", "c", "y", "\"", ",", "\"", "e", "v", "e", "n", "t", "_", "t", "y", "p", "e",
     "\"", ":", "\"", "F", "I", "R", "E", "\"", "}">>
O_emergency_fire_D1 ==
  [ device_id |-> <<"D", "1">>,
    type |-> <<"e", "m", "e", "r", "g", "e", "n", "c", "y">>,
    event_type |-> <<"F", "I", "R", "E">> ]
J_emergency_fire_D1 == <<"{", "\"", "d", "e", "v", "i", "c", "e", "_", "i", "d", "\"", ":", " ", "\"", "D",
     "1", "\"", ",", " ", "\"", "t", "y", "p", "e", "\"", ":", " ", "\"", "e", "m", "e",
     "r", "g", "e", "n", "c", "y", "\"", ",", " ", "\"", "e", "v", "e", "n", "t", "_",
     "t", "y", "p", "e", "\"", ":", " ", "\"", "F", "I", "R", "E", "\"", "}">>
T_emergency_event_D1 == <<"{", "\"", "d", "e", "v", "i", "c", "e", "_", "i", "d", "\"", ":", "\"", "D", "1",
     "\"", ",", "\"", "t", "y", "p", "e", "\"", ":", "\"", "e", "m", "e", "r", "g", "e",
     "n", "c", "y", "\"", ",", "\"", "e", "v", "e", "n", "t", "\"", ":", "\"", "F", "I",
     "R", "E", " ", "E", "M", "E", "R", "G", "E", "N", "C", "Y", "\"", "}">>
O_emergency_event_D1 ==
  [ device_id |-> <<"D", "1">>,
    type |-> <<"e", "m", "e", "r", "g", "e", "n", "c", "y">>,
    event |-> <<"F", "I", "R", "E", " ", "E", "M", "E", "R", "G", "E", "N", "C", "Y">> ]
J_emergency_event_D1 == <<"{", "\"", "d", "e", "v", "i", "c", "e", "_", "i", "d", "\"", ":", " ", "\"", "D",
     "1", "\"", ",", " ", "\"", "t", "y", "p", "e", "\"", ":", " ", "\"", "e", "m", "e",
     "r", "g", "e", "n", "c", "y", "\"", ",", " ", "\"", "e", "v", "e", "n", "t", "\"",
     ":", " ", "\"", "F", "I", "R", "E", " ", "E", "M", "E", "R", "G", "E", "N", "C",
     "Y", "\"", "}">>
T_emergency_mt_D2 == <<"{", "\"", "d", "e", "v", "i", "c", "e", "_", "i", "d", "\"", ":", "\"", "D", "2",
     "\"", ",", "\"", "m", "e", "s", "s", "a", "g", "e", "_", "t", "y", "p", "e", "\"",
     ":", "\"", "e", "m", "e", "r", "g", "e", "n", "c", "y", "\"", ",", "\"", "e", "v",
     "e", "n", "t", "_", "t", "y", "p", "e", "\"", ":", "\"", "C", "O", "\"", "}">>
O_emergency_mt_D2 ==
  [ device_id |-> <<"D", "2">>,
    message_type |-> <<"e", "m", "e", "r", "g", "e", "n", "c", "y">>,
    event_type |-> <<"C", "O">> ]
J_emergency_mt_D2 == <<"{", "\"", "d", "e", "v", "i", "c", "e", "_", "i", "d", "\"", ":", " ", "\"", "D",
     "2", "\"", ",", " ", "\"", "m", "e", "s", "s", "a", "g", "e", "_", "t", "y", "p",
     "e", "\"", ":", " ", "\"", "e", "m", "e", "r", "g", "e", "n", "c", "y", "\"", ",",
     " ", "\"", "e", "v", "e", "n", "t", "_", "t", "y", "p", "e", "\"", ":", " ", "\"",
     "C", "O", "\"", "}">>
T_heartbeat == <<"{", "\"", "t", "y", "p", "e", "\"", ":", "\"", "h", "e", "a", "r", "t", "b", "e",
     "a", "t", "\"", "}">>
O_heartbeat ==
  [ type |-> <<"h", "e", "a", "r", "t", "b", "e", "a", "t">> ]
J_heartbeat == <<"{", "\"", "t", "y", "p", "e", "\"", ":", " ", "\"", "h", "e", "a", "r", "t", "b",
     "e", "a", "t", "\"", "}">>
T_heartbeat_key_D1 == <<"{", "\"", "h", "e", "a", "r", "t", "b", "e", "a", "t", "\"", ":", "t", "r", "u",
     "e", ",", "\"", "d", "e", "v", "i", "c", "e", "I", "d", "\"", ":", "\"", "D", "1",
     "\"", "}">>
O_heartbeat_key_D1 ==
  [ heartbeat |-> PyTrue,
    deviceId |-> <<"D", "1">> ]
J_heartbeat_key_D1 == <<"{", "\"", "h", "e", "a", "r", "t", "b", "e", "a", "t", "\"", ":", " ", "t", "r",
     "u", "e", ",", " ", "\"", "d", "e", "v", "i", "c", "e", "I", "d", "\"", ":", " ",
     "\"", "D", "1", "\"", "}">>
T_test_fail_D1 == <<"{", "\"", "d", "e", "v", "i", "c", "e", "_", "i", "d", "\"", ":", "\"", "D", "1",
     "\"", ",", "\"", "t", "y", "p", "e", "\"", ":", "\"", "t", "e", "s", "t", "\"", ",",
     "\"", "e", "v", "e", "n", "t", "_", "t", "y", "p", "e", "\"", ":", "\"", "C", "O",
     "\"", ",", "\"", "r", "e", "s", "u", "l", "t", "\"", ":", "\"", "F", "A", "I", "L",
     "E", "D", "\"", "}">>
O_test_fail_D1 ==
  [ device_id |-> <<"D", "1">>,
    type |-> <<"t", "e", "s", "t">>,
    event_type |-> <<"C", "O">>,
    result |-> <<"F", "A", "I", "L", "E", "D">> ]
J_test_fail_D1 == <<"{", "\"", "d", "e", "v", "i", "c", "e", "_", "i", "d", "\"", ":", " ", "\"", "D",
     "1", "\"", ",", " ", "\"", "t", "y", "p", "e", "\"", ":", " ", "\"", "t", "e", "s",
     "t", "\"", ",", " ", "\"", "e", "v", "e", "n", "t", "_", "t", "y", "p", "e", "\"",
     ":", " ", "\"", "C", "O", "\"", ",", " ", "\"", "r", "e", "s", "u", "l", "t", "\"",
     ":", " ", "\"", "F", "A", "I", "L", "E", "D", "\"", "}">>
T_test_pass_D1 == <<"{", "\"", "d", "e", "v", "i", "c", "e", "_", "i", "d", "\"", ":", "\"", "D", "1",
     "\"", ",", "\"", "t", "y", "p", "e", "\"", ":", "\"", "t", "e", "s", "t", "\"", ",",
     "\"", "r", "e", "s", "u", "l", "t", "\"", ":", "\"", "p", "a", "s", "s", "\"", "}">>
O_test_pass_D1 ==
  [ device_id |-> <<"D", "1">>,
    type |-> <<"t", "e", "s", "t">>,
    result |-> <<"p", "a", "s", "s">> ]
J_test_pass_D1 == <<"{", "\"", "d", "e", "v", "i", "c", "e", "_", "i", "d", "\"", ":", " ", "\"", "D",
     "1", "\"", ",", " ", "\"", "t", "y", "p", "e", "\"", ":", " ", "\"", "t", "e", "s",
     "t", "\"", ",", " ", "\"", "r", "e", "s", "u", "l", "t", "\"", ":", " ", "\"", "p",
     "a", "s", "s", "\"", "}">>
T_battery_D2 == <<"{", "\"", "d", "e", "v", "i", "c", "e", "_", "i", "d", "\"", ":", "\"", "D", "2",
     "\"", ",", "\"", "b", "a", "t", "t", "e", "r", "y", "\"", ":", "\"", "L", "O", "W",
     "\"", "}">>
O_battery_D2 ==
  [ device_id |-> <<"D", "2">>,
    battery |-> <<"L", "O", "W">> ]
J_battery_D2 == <<"{", "\"", "d", "e", "v", "i", "c", "e", "_", "i", "d", "\"", ":", " ", "\"", "D",
     "2", "\"", ",", " ", "\"", "b", "a", "t", "t", "e", "r", "y", "\"", ":", " ", "\"",
     "L", "O", "W", "\"", "}">>
T_event_D1 == <<"{", "\"", "d", "e", "v", "i", "c", "e", "_", "i", "d", "\"", ":", "\"", "D", "1",
     "\"", ",", "\"", "e", "v", "e", "n", "t", "\"", ":", "\"", "F", "i", "r", "e", " ",
     "E", "m", "e", "r", "g", "e", "n", "c", "y", "\"", "}">>
O_event_D1 ==
  [ device_id |-> <<"D", "1">>,
    event |-> <<"F", "i", "r", "e", " ", "E", "m", "e", "r", "g", "e", "n", "c", "y">> ]
J_event_D1 == <<"{", "\"", "d", "e", "v", "i", "c", "e", "_", "i", "d", "\"", ":", " ", "\"", "D",
     "1", "\"", ",", " ", "\"", "e", "v", "e", "n", "t", "\"", ":", " ", "\"", "F", "i",
     "r", "e", " ", "E", "m", "e", "r", "g", "e", "n", "c", "y", "\"", "}">>
T_test_result_D2 == <<"{", "\"", "d", "e", "v", "i", "c", "e", "_", "i", "d", "\"", ":", "\"", "D", "2",
     "\"", ",", "\"", "t", "e", "s", "t", "_", "r", "e", "s", "u", "l", "t", "\"", ":",
     "\"", "C", "O", ":", " ", "f", "a", "i", "l", "\"", "}">>
O_test_result_D2 ==
  [ device_id |-> <<"D", "2">>,
    test_result |-> <<"C", "O", ":", " ", "f", "a", "i", "l">> ]
J_test_result_D2 == <<"{", "\"", "d", "e", "v", "i", "c", "e", "_", "i", "d", "\"", ":", " ", "\"", "D",
     "2", "\"", ",", " ", "\"", "t", "e", "s", "t", "_", "r", "e", "s", "u", "l", "t",
     "\"", ":", " ", "\"", "C", "O", ":", " ", "f", "a", "i", "l", "\"", "}">>
T_empty_deviceId == <<"{", "\"", "d", "e", "v", "i", "c", "e", "I", "d", "\"", ":", "\"", "\"", ",", "\"",
     "d", "e", "v", "i", "c", "e", "_", "i", "d", "\"", ":", "\"", "D", "2", "\"", ",",
     "\"", "m", "o", "d", "e", "l", "I", "d", "\"", ":", "\"", "\"", ",", "\"", "m", "o",
     "d", "e", "l", "_", "i", "d", "\"", ":", "\"", "1", "1", "0", "4", "\"", "}">>
O_empty_deviceId ==
  [ deviceId |-> <<>>,
    device_id |-> <<"D", "2">>,
    modelId |-> <<>>,
    model_id |-> <<"1", "1", "0", "4">> ]
J_empty_deviceId == <<"{", "\"", "d", "e", "v", "i", "c", "e", "I", "d", "\"", ":", " ", "\"", "\"", ",",
     " ", "\"", "d", "e", "v", "i", "c", "e", "_", "i", "d", "\"", ":", " ", "\"", "D",
     "2", "\"", ",", " ", "\"", "m", "o", "d", "e", "l", "I", "d", "\"", ":", " ", "\"",
     "\"", ",", " ", "\"", "m", "o", "d", "e", "l", "_", "i", "d", "\"", ":", " ", "\"",
     "1", "1", "0", "4", "\"", "}">>
T_unknown_model_D2 == <<"{", "\"", "d", "e", "v", "i", "c", "e", "_", "i", "d", "\"", ":", "\"", "D", "2",
     "\"", ",", "\"", "m", "o", "d", "e", "l", "_", "i", "d", "\"", ":", "\"", "F", "F",
     "F", "F", "\"", ",", "\"", "t", "y", "p", "e", "\"", ":", "\"", "p", "a", "i", "r",
     "i", "n", "g", "\"", "}">>
O_unknown_model_D2 ==
  [ device_id |-> <<"D", "2">>,
    model_id |-> <<"F", "F", "F", "F">>,
    type |-> <<"p", "a", "i", "r", "i", "n", "g">> ]
J_unknown_model_D2 == <<"{", "\"", "d", "e", "v", "i", "c", "e", "_", "i", "d", "\"", ":", " ", "\"", "D",
     "2", "\"", ",", " ", "\"", "m", "o", "d", "e", "l", "_", "i", "d", "\"", ":", " ",
     "\"", "F", "F", "F", "F", "\"", ",", " ", "\"", "t", "y", "p", "e", "\"", ":", " ",
     "\"", "p", "a", "i", "r", "i", "n", "g", "\"", "}">>
T_pairing == <<"{", "\"", "t", "y", "p", "e", "\"", ":", "\"", "p", "a", "i", "r", "i", "n", "g",
     "\"", "}">>
O_pairing ==
  [ type |-> <<"p", "a", "i", "r", "i", "n", "g">> ]
J_pairing == <<"{", "\"", "t", "y", "p", "e", "\"", ":", " ", "\"", "p", "a", "i", "r", "i", "n",
     "g", "\"", "}">>
T_list_id == <<"{", "\"", "d", "e", "v", "i", "c", "e", "_", "i", "d", "\"", ":", "[", "\"", "D",
     "1", "\"", "]", ",", "\"", "t", "y", "p", "e", "\"", ":", "\"", "s", "t", "a", "t",
     "u", "s", "\"", "}">>
O_list_id ==
  [ device_id |-> PyList,
    type |-> <<"s", "t", "a", "t", "u", "s">> ]
J_list_id == <<"{", "\"", "d", "e", "v", "i", "c", "e", "_", "i", "d", "\"", ":", " ", "[", "\"",
     "D", "1", "\"", "]", ",", " ", "\"", "t", "y", "p", "e", "\"", ":", " ", "\"", "s",
     "t", "a", "t", "u", "s", "\"", "}">>

JSON_TABLE ==
  { [text |-> T_status_D1, obj |-> O_status_D1, dumps |-> J_status_D1],
    [text |-> T_status_bare_D1, obj |-> O_status_bare_D1, dumps |-> J_status_bare_D1],
    [text |-> T_status_both_ids, obj |-> O_status_both_ids, dumps |-> J_status_both_ids],
    [text |-> T_missing_D1, obj |-> O_missing_D1, dumps |-> J_missing_D1],
    [text |-> T_missing_D2, obj |-> O_missing_D2, dumps |-> J_missing_D2],
    [text |-> T_missing_bridge, obj |-> O_missing_bridge, dumps |-> J_missing_bridge],
    [text |-> T_emergency_fire_D1, obj |-> O_emergency_fire_D1, dumps |-> J_emergency_fire_D1],
    [text |-> T_emergency_event_D1, obj |-> O_emergency_event_D1, dumps |-> J_emergency_event_D1],
    [text |-> T_emergency_mt_D2, obj |-> O_emergency_mt_D2, dumps |-> J_emergency_mt_D2],
    [text |-> T_heartbeat, obj |-> O_heartbeat, dumps |-> J_heartbeat],
    [text |-> T_heartbeat_key_D1, obj |-> O_heartbeat_key_D1, dumps |-> J_heartbeat_key_D1],
    [text |-> T_test_fail_D1, obj |-> O_test_fail_D1, dumps |-> J_test_fail_D1],
    [text |-> T_test_pass_D1, obj |-> O_test_pass_D1, dumps |-> J_test_pass_D1],
    [text |-> T_battery_D2, obj |-> O_battery_D2, dumps |-> J_battery_D2],
    [text |-> T_event_D1, obj |-> O_event_D1, dumps |-> J_event_D1],
    [text |-> T_test_result_D2, obj |-> O_test_result_D2, dumps |-> J_test_result_D2],
    [text |-> T_empty_deviceId, obj |-> O_empty_deviceId, dumps |-> J_empty_deviceId],
    [text |-> T_unknown_model_D2, obj |-> O_unknown_model_D2, dumps |-> J_unknown_model_D2],
    [text |-> T_pairing, obj |-> O_pairing, dumps |-> J_pairing],
    [text |-> T_list_id, obj |-> O_list_id, dumps |-> J_list_id] }

\* json.loads(text) raises JSONDecodeError unless text is a JSON document
JsonValid(text) == \E p \in JSON_TABLE : p.text = text
json_loads(text) == (CHOOSE p \in JSON_TABLE : p.text = text).obj
json_dumps(obj) == (CHOOSE p \in JSON_TABLE : p.obj = obj).dumps

\* what readline() hands over: the bytes of one line, terminator included;
\* utf8 tells whether bytes.decode("utf-8") succeeds on them
Frame(text) == [utf8 |-> TRUE, raw |-> text \o <<"\r", "\n">>]

L_noise       == Frame(S_noise)
L_blank       == Frame(<<>>)
L_truncated   == Frame(SubSeq(T_missing_D1, 1, 24))
L_undecodable == [utf8 |-> FALSE, raw |-> <<"{", "?", "\n">>]

JsonFrames == { Frame(p.text) : p \in JSON_TABLE }
OtherFrames == { L_noise, L_blank, L_truncated, L_undecodable }
Frames == JsonFrames \cup OtherFrames

(***************************************************************************)
(* Bounds of the model.                                                    *)
(***************************************************************************)
MaxLines  == 2    \* lines the bridge sends in one run
MaxLifeLines == 1 \* the same, in a run of SpecLife
MaxRx     == 1    \* lines waiting in the port's input buffer
MaxOpens  == 2    \* serial.Serial objects opened in one run
MaxWrites == 1    \* commands written in one run
MaxTime   == 36   \* last value of the clock, in seconds

(***************************************************************************)
(* State.                                                                  *)
(***************************************************************************)
VARIABLES
  now,              \* datetime.now(), in seconds
  _serial,          \* self._serial: a handle, or NoHandle for None
  _devices,         \* self._devices: device_id -> WiSafe2Device
  _bridge_online,   \* self._bridge_online
  _last_heartbeat,  \* self._last_heartbeat
  _bridge_device,   \* self._bridge_device
  _read_task,       \* self._read_task: a task, or NoTask for None
  _running,         \* self._running
  _raw_data,        \* self._raw_data
  _last_message,    \* self._last_message
  handles,          \* the serial.Serial objects opened so far: "open" or "closed"
  tasks,            \* the _async_read_serial tasks created so far
  rx,               \* lines waiting in the port's input buffer
  fed,              \* number of lines the bridge has sent
  tx,               \* what has been written to the port
  bus,              \* events fired on hass.bus
  published,        \* arguments of async_set_updated_data, in order
  orphans,          \* executor jobs whose awaiting task was cancelled
  start_pc,         \* async_start: "idle" or "opening"
  start_ret,        \* last return value of async_start
  stop_pc,          \* async_stop: "idle", "joining" or "closing"
  stop_h,           \* the handle whose close() async_stop awaits
  send_pc,          \* async_send_command: "idle" or "writing"
  send_job,         \* the write() async_send_command awaits
  send_ret          \* last return value of async_send_command

coordVars == <<_devices, _bridge_online, _last_heartbeat, _bridge_device,
               _raw_data, _last_message, bus, published>>
lifeVars  == <<_serial, _read_task, _running, handles, tasks, orphans,
               start_pc, start_ret, stop_pc, stop_h>>
sendVars  == <<tx, send_pc, send_job, send_ret>>
vars == <<now, rx, fed, coordVars, lifeVars, sendVars>>

NoHandle == 0
NoTask   == 0
NoJob    == [h |-> NoHandle, bytes |-> <<>>]

\* the attributes the message path reads and writes, as one value
Coord ==
  [ _devices        |-> _devices,
    _bridge_online  |-> _bridge_online,
    _last_heartbeat |-> _last_heartbeat,
    _bridge_device  |-> _bridge_device,
    _raw_data       |-> _raw_data,
    _last_message   |-> _last_message,
    bus             |-> bus,
    published       |-> published ]

SetCoord(c) ==
  /\ _devices' = c._devices
  /\ _bridge_online' = c._bridge_online
  /\ _last_heartbeat' = c._last_heartbeat
  /\ _bridge_device' = c._bridge_device
  /\ _raw_data' = c._raw_data
  /\ _last_message' = c._last_message
  /\ bus' = c.bus
  /\ published' = c.published

(***************************************************************************)
(* class WiSafe2Coordinator: the message path                              *)
(***************************************************************************)
\* faulty variant of bridge_online: the timeout compared with <=
bridge_online_at_inclusive(last_heartbeat, t) ==
  IF last_heartbeat = NoTime THEN FALSE
  ELSE (t - last_heartbeat) <= HEARTBEAT_TIMEOUT

\* WiSafe2Coordinator.bridge_online, evaluated at time t
bridge_online_at(last_heartbeat, t) ==
  IF last_heartbeat = NoTime THEN FALSE
  ELSE (t - last_heartbeat) < HEARTBEAT_TIMEOUT

bridge_online == bridge_online_at(_last_heartbeat, now)

\* hass.bus.async_fire(event_type, event_data)
async_fire(c, event_type, event_data) ==
  [c EXCEPT !.bus = Append(@, [event_type |-> event_type, event_data |-> event_data])]

\* DataUpdateCoordinator.async_set_updated_data(data)
async_set_updated_data(c, data) == [c EXCEPT !.published = Append(@, data)]

\* faulty variant of _handle_device_event: a device already offline is not
\* reported missing again
_handle_device_event_dedup(c, id, msg_type, data) ==
  LET device == c._devices[id] IN
  CASE msg_type = S_test ->
         LET result     == GetDefault(data, "result", S_unknown)
             event_type == GetDefault(data, "event_type", S_unknown)
         IN  [c EXCEPT !._devices[id].last_test_result =
                          PyStr(event_type) \o S_colon_space \o PyStr(result)]
    [] msg_type = S_emergency ->
         LET event_type == GetDefault(data, "event_type", S_unknown)
             c1 == [c EXCEPT !._devices[id].last_event =
                               S_EMERGENCY_prefix \o PyStr(event_type)]
         IN  async_fire(c1, WISAFE2_DOMAIN \o S_emergency_suffix,
                        [ device_id   |-> device.device_id,
                          event_type  |-> event_type,
                          device_name |-> device.name,
                          location    |-> device.location ])
    [] msg_type = S_status ->
         LET battery == GetDefault(data, "battery", S_unknown)
             base    == GetDefault(data, "base", S_unknown)
         IN  [c EXCEPT !._devices[id].battery_status = battery,
                       !._devices[id].base_status = base]
    [] msg_type = S_missing ->
         IF ~device.is_online THEN c
         ELSE LET c1 == [c EXCEPT !._devices[id].is_online = FALSE]
              IN  async_fire(c1, WISAFE2_DOMAIN \o S_device_missing_suffix,
                             [ device_id   |-> device.device_id,
                               device_name |-> device.name ])
    [] OTHER -> c

\* WiSafe2Coordinator._handle_device_event, on the device stored under id
_handle_device_event(c, id, msg_type, data) ==
  LET device == c._devices[id] IN
  CASE msg_type = S_test ->
         LET result     == GetDefault(data, "result", S_unknown)
             event_type == GetDefault(data, "event_type", S_unknown)
         IN  [c EXCEPT !._devices[id].last_test_result =
                          PyStr(event_type) \o S_colon_space \o PyStr(result)]
    [] msg_type = S_emergency ->
         LET event_type == GetDefault(data, "event_type", S_unknown)
             c1 == [c EXCEPT !._devices[id].last_event =
                               S_EMERGENCY_prefix \o PyStr(event_type)]
         IN  async_fire(c1, WISAFE2_DOMAIN \o S_emergency_suffix,
                        [ device_id   |-> device.device_id,
                          event_type  |-> event_type,
                          device_name |-> device.name,
                          location    |-> device.location ])
    [] msg_type = S_status ->
         LET battery == GetDefault(data, "battery", S_unknown)
             base    == GetDefault(data, "base", S_unknown)
         IN  [c EXCEPT !._devices[id].battery_status = battery,
                       !._devices[id].base_status = base]
    [] msg_type = S_missing ->
         LET c1 == [c EXCEPT !._devices[id].is_online = FALSE]
         IN  async_fire(c1, WISAFE2_DOMAIN \o S_device_missing_suffix,
                        [ device_id   |-> device.device_id,
                          device_name |-> device.name ])
    [] OTHER -> c

\* the heartbeat branch of _handle_json_message
HandleHeartbeat(c, t) ==
  [c EXCEPT !._last_heartbeat = t,
            !._bridge_online = TRUE,
            !._bridge_device.last_seen = t,
            !._bridge_device.is_online = TRUE]

\* faulty variant of the heartbeat test: the `heartbeat` key not consulted
IsHeartbeat_type_only(data) == Get(data, "type") = S_heartbeat

\* `data.get("type") == "heartbeat" or "heartbeat" in data`
IsHeartbeat(data) == Get(data, "type") = S_heartbeat \/ HasKey(data, "heartbeat")

\* the device the message names: data.get("deviceId") or data.get("device_id")
MessageDeviceId(data) == PyOr(Get(data, "deviceId"), Get(data, "device_id"))
MessageModelId(data)  == PyOr(Get(data, "modelId"), Get(data, "model_id"))
MessageType(data)     == PyOr(Get(data, "type"), Get(data, "message_type"))

\* faulty variant of the device branch: the generic field updates applied
\* after the type-specific handling
HandleDeviceMessage_update_last(c, device_id, data, t) ==
  LET c1 == IF device_id \notin DOMAIN c._devices
            THEN [c EXCEPT !._devices =
                    @ @@ (device_id :> WiSafe2Device(device_id, MessageModelId(data)))]
            ELSE c
      msg_type == MessageType(data)
      c2 == IF Truthy(msg_type) THEN _handle_device_event(c1, device_id, msg_type, data)
            ELSE c1
  IN  [c2 EXCEPT !._devices[device_id] = update_from_message(@, data, t)]

\* faulty variant of the device branch: the handler gives up the scheduler
\* after the generic field updates, the type-specific handling still to come
HandleDeviceMessage_generic_only(c, device_id, data, t) ==
  LET c1 == IF device_id \notin DOMAIN c._devices
            THEN [c EXCEPT !._devices =
                    @ @@ (device_id :> WiSafe2Device(device_id, MessageModelId(data)))]
            ELSE c
  IN  [c1 EXCEPT !._devices[device_id] = update_from_message(@, data, t)]

\* the device branch of _handle_json_message
HandleDeviceMessage(c, device_id, data, t) ==
  LET c1 == IF device_id \notin DOMAIN c._devices
            THEN [c EXCEPT !._devices =
                    @ @@ (device_id :> WiSafe2Device(device_id, MessageModelId(data)))]
            ELSE c
      c2 == [c1 EXCEPT !._devices[device_id] = update_from_message(@, data, t)]
      msg_type == MessageType(data)
  IN  IF Truthy(msg_type) THEN _handle_device_event(c2, device_id, msg_type, data)
      ELSE c2

\* WiSafe2Coordinator._handle_json_message at time t: the attributes after
\* it, and the exception it raises, if any ("" for none)
_handle_json_message(c, data, t) ==
  LET c1 == [c EXCEPT !._last_message = json_dumps(data)]
      c2 == IF IsHeartbeat(data) THEN HandleHeartbeat(c1, t) ELSE c1
      device_id == MessageDeviceId(data)
  IN  IF ~Truthy(device_id)
      THEN [c |-> async_set_updated_data(c2, data), err |-> ""]
      ELSE IF device_id = PyList
      THEN [c |-> c2, err |-> "TypeError"]
      ELSE [c |-> async_set_updated_data(HandleDeviceMessage(c2, device_id, data, t), data),
            err |-> ""]

\* faulty variant of _process_line: a line that is not JSON is kept as the
\* last message
_process_line_keeps_text(c, line, t) ==
  IF StartsWith(line, <<"{">>)
  THEN IF JsonValid(line) THEN _handle_json_message(c, json_loads(line), t)
       ELSE [c |-> c, err |-> ""]
  ELSE [c |-> [c EXCEPT !._last_message = line], err |-> ""]

\* faulty variant of _process_line: JSONDecodeError not caught
_process_line_uncaught(c, line, t) ==
  IF StartsWith(line, <<"{">>)
  THEN IF JsonValid(line) THEN _handle_json_message(c, json_loads(line), t)
       ELSE [c |-> c, err |-> "JSONDecodeError"]
  ELSE [c |-> c, err |-> ""]

\* WiSafe2Coordinator._process_line
_process_line(c, line, t) ==
  IF StartsWith(line, <<"{">>)
  THEN IF JsonValid(line) THEN _handle_json_message(c, json_loads(line), t)
       ELSE [c |-> c, err |-> ""]
  ELSE [c |-> c, err |-> ""]

\* _async_read_serial, from the return of readline() to the end of the try
\* block: decode, strip, store, dispatch
HandleData(c, data, t) ==
  IF ~data.utf8 THEN [c |-> c, err |-> ""]
  ELSE LET line == Strip(data.raw) IN
       IF line # <<>> THEN _process_line([c EXCEPT !._raw_data = line], line, t)
       ELSE [c |-> c, err |-> ""]

\* faulty variant of _async_update_data: devices, too, go offline by timeout
_async_update_data_sweep(c, t) ==
  LET swept == [ id \in DOMAIN c._devices |->
                   IF c._devices[id].last_seen # NoTime
                      /\ t - c._devices[id].last_seen >= HEARTBEAT_TIMEOUT
                   THEN [c._devices[id] EXCEPT !.is_online = FALSE]
                   ELSE c._devices[id] ]
      c1 == [c EXCEPT !._devices = swept]
  IN  IF ~bridge_online_at(c._last_heartbeat, t) /\ c._bridge_online
      THEN [c1 EXCEPT !._bridge_online = FALSE, !._bridge_device.is_online = FALSE]
      ELSE c1

\* WiSafe2Coordinator._async_update_data: the attributes after it
_async_update_data(c, t) ==
  IF ~bridge_online_at(c._last_heartbeat, t) /\ c._bridge_online
  THEN [c EXCEPT !._bridge_online = FALSE, !._bridge_device.is_online = FALSE]
  ELSE c

\* the dict _async_update_data returns
UpdateDataResult ==
  [ bridge_online |-> bridge_online,
    devices |-> [ id \in DOMAIN _devices |->
                    [ name             |-> _devices[id].name,
                      model_id         |-> _devices[id].model_id,
                      device_type      |-> _devices[id].device_type,
                      battery_status   |-> _devices[id].battery_status,
                      base_status      |-> _devices[id].base_status,
                      last_event       |-> _devices[id].last_event,
                      last_test_result |-> _devices[id].last_test_result,
                      last_seen        |-> _devices[id].last_seen,
                      is_online        |-> _devices[id].is_online ] ] ]

\* faulty variant of add_device: a device already known is created anew
add_device_replace(devices, device_id, model_id, name, location) ==
  [ id \in DOMAIN devices \cup {device_id} |->
      IF id = device_id
      THEN [WiSafe2Device(device_id, model_id) EXCEPT !.name = name, !.location = location]
      ELSE devices[id] ]

\* WiSafe2Coordinator.add_device: the registry after it
add_device(devices, device_id, model_id, name, location) ==
  IF device_id \notin DOMAIN devices
  THEN devices @@ (device_id :>
         [WiSafe2Device(device_id, model_id) EXCEPT !.name = name, !.location = location])
  ELSE [devices EXCEPT
          ![device_id].name     = IF Truthy(name) THEN name ELSE @,
          ![device_id].location = IF Truthy(location) THEN location ELSE @,
          ![device_id].model_id = IF Truthy(model_id) THEN model_id ELSE @]

\* str.encode("utf-8") of a command code: the bytes
OrdChar(c) ==
  CASE c = "1" -> 49 [] c = "2" -> 50 [] c = "3" -> 51
    [] c = "4" -> 52 [] c = "5" -> 53 [] c = "6" -> 54
    [] c = "7" -> 55 [] c = "8" -> 56 [] c = "9" -> 57
    [] c = "~" -> 126
Encode(s) == [i \in 1..Len(s) |-> OrdChar(s[i])]

Commands == { CMD_TEST_CO, CMD_TEST_SMOKE, CMD_TEST_ALL, CMD_EMERGENCY_CO,
              CMD_EMERGENCY_SMOKE, CMD_SILENCE_CO, CMD_SILENCE_SMOKE,
              CMD_GET_PAIRING, CMD_START_PAIRING }

(***************************************************************************)
(* Initial state: WiSafe2Coordinator.__init__                              *)
(***************************************************************************)
Init ==
  /\ now = 0
  /\ _serial = NoHandle
  /\ _devices = <<>>
  /\ _bridge_online = FALSE
  /\ _last_heartbeat = NoTime
  /\ _read_task = NoTask
  /\ _running = FALSE
  /\ _raw_data = None
  /\ _last_message = None
  /\ _bridge_device = [WiSafe2Device(S_bridge, None) EXCEPT
                         !.name = S_WiSafe2_Bridge,
                         !.device_type = DEVICE_TYPE_BRIDGE]
  /\ handles = <<>>
  /\ tasks = <<>>
  /\ rx = <<>>
  /\ fed = 0
  /\ tx = <<>>
  /\ bus = <<>>
  /\ published = <<>>
  /\ orphans = <<>>
  /\ start_pc = "idle"
  /\ start_ret = "none"
  /\ stop_pc = "idle"
  /\ stop_h = NoHandle
  /\ send_pc = "idle"
  /\ send_job = NoJob
  /\ send_ret = "none"

(***************************************************************************)
(* The reader task: _async_read_serial.  A task is suspended at one of its *)
(* awaits: "created" (not run yet), "readline" (the executor job),         *)
(* "sleep" (asyncio.sleep(0.1)), "pause" (asyncio.sleep(1) in the except   *)
(* clause, err being the exception caught); or it is "done" or             *)
(* "cancelled".                                                            *)
(***************************************************************************)
\* faulty variant of the task's states: an exception caught in the loop ends
\* the task instead of pausing it
Task_fatal(pc, h, err) ==
  [pc |-> IF pc = "pause" THEN "done" ELSE pc, h |-> h, err |-> err]

\* a reader task: where it is suspended, the handle its readline() reads and
\* the exception it last caught
Task(pc, h, err) == [pc |-> pc, h |-> h, err |-> err]

\* from the loop condition to the next await: the ways the task can suspend
LoopTop(running, serial, hs, inbuf) ==
  IF ~running THEN { Task("done", NoHandle, "") }
  ELSE IF serial = NoHandle THEN { Task("sleep", NoHandle, "") }
  ELSE IF hs[serial] = "closed" THEN { Task("pause", NoHandle, "in_waiting") }
  ELSE { Task("pause", NoHandle, "in_waiting") } \cup
       ( IF inbuf # <<>> THEN { Task("readline", serial, "") }
         ELSE { Task("sleep", NoHandle, "") } )

\* the task runs for the first time, or wakes up from a sleep
ReaderWakes(i) ==
  /\ tasks[i].pc \in {"created", "sleep", "pause"}
  /\ \E nt \in LoopTop(_running, _serial, handles, rx) :
        tasks' = [tasks EXCEPT ![i] = nt]
  /\ UNCHANGED <<now, rx, fed, coordVars, sendVars, _serial, _read_task, _running,
                 handles, orphans, start_pc, start_ret, stop_pc, stop_h>>

\* readline() returns a line, which is decoded and dispatched
ReaderReadsLine(i) ==
  /\ tasks[i].pc = "readline"
  /\ rx # <<>>
  /\ LET r == HandleData(Coord, Head(rx), now) IN
       /\ SetCoord(r.c)
       /\ rx' = Tail(rx)
       /\ IF r.err # ""
          THEN tasks' = [tasks EXCEPT ![i] = Task("pause", NoHandle, r.err)]
          ELSE \E nt \in LoopTop(_running, _serial, handles, Tail(rx)) :
                 tasks' = [tasks EXCEPT ![i] = nt]
  /\ UNCHANGED <<now, fed, sendVars, _serial, _read_task, _running,
                 handles, orphans, start_pc, start_ret, stop_pc, stop_h>>

\* readline() returns b"" at its timeout: another reader took the line, or
\* the handle was closed under it
ReaderReadsNothing(i) ==
  /\ tasks[i].pc = "readline"
  /\ rx = <<>> \/ handles[tasks[i].h] = "closed"
  /\ \E nt \in LoopTop(_running, _serial, handles, rx) :
        tasks' = [tasks EXCEPT ![i] = nt]
  /\ UNCHANGED <<now, rx, fed, coordVars, sendVars, _serial, _read_task, _running,
                 handles, orphans, start_pc, start_ret, stop_pc, stop_h>>

\* readline() raises
ReaderReadFails(i) ==
  /\ tasks[i].pc = "readline"
  /\ tasks' = [tasks EXCEPT ![i] = Task("pause", NoHandle, "readline")]
  /\ UNCHANGED <<now, rx, fed, coordVars, sendVars, _serial, _read_task, _running,
                 handles, orphans, start_pc, start_ret, stop_pc, stop_h>>

\* a readline() whose task was cancelled ends in its worker thread
OrphanReadline(take) ==
  /\ orphans # <<>>
  /\ orphans' = Tail(orphans)
  /\ rx' = IF take /\ rx # <<>> THEN Tail(rx) ELSE rx
  /\ UNCHANGED <<now, fed, coordVars, sendVars, _serial, _read_task, _running,
                 handles, tasks, start_pc, start_ret, stop_pc, stop_h>>

\* the bridge sends a line
Feed(line) ==
  /\ fed < MaxLines
  /\ Len(rx) < MaxRx
  /\ \E h \in 1..Len(handles) : handles[h] = "open"
  /\ rx' = Append(rx, line)
  /\ fed' = fed + 1
  /\ UNCHANGED <<now, coordVars, lifeVars, sendVars>>

\* time passes
Tick(dt) ==
  /\ now + dt <= MaxTime
  /\ now' = now + dt
  /\ UNCHANGED <<rx, fed, coordVars, lifeVars, sendVars>>

\* the periodic refresh calls _async_update_data
AsyncUpdateData ==
  /\ SetCoord(_async_update_data(Coord, now))
  /\ UNCHANGED <<now, rx, fed, lifeVars, sendVars>>

\* add_device(device_id, model_id, name, location)
AddDevice(device_id, model_id, name, location) ==
  /\ _devices' = add_device(_devices, device_id, model_id, name, location)
  /\ UNCHANGED <<now, rx, fed, lifeVars, sendVars, _bridge_online, _last_heartbeat,
                 _bridge_device, _raw_data, _last_message, bus, published>>

(***************************************************************************)
(* async_start, async_stop, async_send_command                             *)
(***************************************************************************)
\* async_start up to the await of the executor job that opens the port
AsyncStartCall ==
  /\ start_pc = "idle"
  /\ Len(handles) < MaxOpens
  /\ start_pc' = "opening"
  /\ start_ret' = "pending"
  /\ UNCHANGED <<now, rx, fed, coordVars, sendVars, _serial, _read_task, _running,
                 handles, tasks, orphans, stop_pc, stop_h>>

\* serial.Serial(...) succeeded
AsyncStartOpened ==
  /\ start_pc = "opening"
  /\ handles' = Append(handles, "open")
  /\ _serial' = Len(handles) + 1
  /\ _running' = TRUE
  /\ tasks' = Append(tasks, Task("created", NoHandle, ""))
  /\ _read_task' = Len(tasks) + 1
  /\ start_pc' = "idle"
  /\ start_ret' = "True"
  /\ UNCHANGED <<now, rx, fed, coordVars, sendVars, orphans, stop_pc, stop_h>>

\* serial.Serial(...) raised
AsyncStartFailed ==
  /\ start_pc = "opening"
  /\ start_pc' = "idle"
  /\ start_ret' = "False"
  /\ UNCHANGED <<now, rx, fed, coordVars, sendVars, _serial, _read_task, _running,
                 handles, tasks, orphans, stop_pc, stop_h>>

\* async_stop from `if self._serial:` on
StopClosePhase ==
  IF _serial # NoHandle
  THEN stop_pc' = "closing" /\ stop_h' = _serial
  ELSE stop_pc' = "idle" /\ stop_h' = NoHandle

\* faulty variant of async_stop: the reader task is left to end by itself,
\* neither cancelled nor awaited
AsyncStopCall_no_cancel ==
  /\ stop_pc = "idle"
  /\ _running' = FALSE
  /\ StopClosePhase
  /\ UNCHANGED <<now, rx, fed, coordVars, sendVars, _serial, _read_task,
                 handles, tasks, orphans, start_pc, start_ret>>

\* async_stop up to its first await
AsyncStopCall ==
  /\ stop_pc = "idle"
  /\ _running' = FALSE
  /\ IF _read_task # NoTask /\ tasks[_read_task].pc \notin {"done", "cancelled"}
     THEN /\ tasks' = [tasks EXCEPT ![_read_task] = Task("cancelled", NoHandle, "")]
          /\ orphans' = IF tasks[_read_task].pc = "readline"
                        THEN Append(orphans, [op |-> "readline", h |-> tasks[_read_task].h])
                        ELSE orphans
          /\ stop_pc' = "joining"
          /\ stop_h' = stop_h
     ELSE /\ StopClosePhase
          /\ UNCHANGED <<tasks, orphans>>
  /\ UNCHANGED <<now, rx, fed, coordVars, sendVars, _serial, _read_task,
                 handles, start_pc, start_ret>>

\* the cancelled task has ended: async_stop resumes
AsyncStopJoined ==
  /\ stop_pc = "joining"
  /\ StopClosePhase
  /\ UNCHANGED <<now, rx, fed, coordVars, sendVars, _serial, _read_task, _running,
                 handles, tasks, orphans, start_pc, start_ret>>

\* close() has returned: async_stop resumes and clears the handle
AsyncStopClosed ==
  /\ stop_pc = "closing"
  /\ handles' = [handles EXCEPT ![stop_h] = "closed"]
  /\ _serial' = NoHandle
  /\ stop_pc' = "idle"
  /\ stop_h' = NoHandle
  /\ rx' = IF \E h \in 1..Len(handles) : h # stop_h /\ handles[h] = "open"
           THEN rx ELSE <<>>
  /\ UNCHANGED <<now, fed, coordVars, sendVars, _read_task, _running,
                 tasks, orphans, start_pc, start_ret>>

\* faulty variant of the guard of async_send_command: _running not consulted
SendRefuses_serial_only(serial, running) == serial = NoHandle

\* `if not self._serial or not self._running`
SendRefuses(serial, running) == serial = NoHandle \/ ~running

\* async_send_command refuses: no transport, or not running
AsyncSendRefused(command) ==
  /\ send_pc = "idle"
  /\ SendRefuses(_serial, _running)
  /\ send_ret' = "False"
  /\ UNCHANGED <<now, rx, fed, coordVars, lifeVars, tx, send_pc, send_job>>

\* async_send_command up to the await of the executor job that writes
AsyncSendCall(command) ==
  /\ send_pc = "idle"
  /\ ~SendRefuses(_serial, _running)
  /\ Len(tx) < MaxWrites
  /\ send_pc' = "writing"
  /\ send_job' = [h |-> _serial, bytes |-> Encode(command)]
  /\ send_ret' = "pending"
  /\ UNCHANGED <<now, rx, fed, coordVars, lifeVars, tx>>

\* write() returned
AsyncSendWritten ==
  /\ send_pc = "writing"
  /\ handles[send_job.h] = "open"
  /\ tx' = Append(tx, send_job.bytes)
  /\ send_pc' = "idle"
  /\ send_job' = NoJob
  /\ send_ret' = "True"
  /\ UNCHANGED <<now, rx, fed, coordVars, lifeVars>>

\* write() raised
AsyncSendWriteFailed ==
  /\ send_pc = "writing"
  /\ send_pc' = "idle"
  /\ send_job' = NoJob
  /\ send_ret' = "False"
  /\ UNCHANGED <<now, rx, fed, coordVars, lifeVars, tx>>

(***************************************************************************)
(* Specifications.  The three share the state and the actions and differ   *)
(* in the part of the program they exercise: Spec the message path with    *)
(* every frame, SpecLive the bridge's liveness second by second, SpecLife  *)
(* the life cycle of the transport with start, stop and send.              *)
(***************************************************************************)
\* add_device calls: static registration from the config entry's options
AddDeviceCalls ==
  { [device_id |-> S_D1, model_id |-> None, name |-> S_Kitchen_Alarm, location |-> S_Hall],
    [device_id |-> S_D2, model_id |-> S_E702, name |-> None, location |-> None] }

\* the frames of the message path
MessageFrames ==
  { Frame(T_status_D1), Frame(T_status_bare_D1), Frame(T_missing_D1), Frame(T_missing_D2),
    Frame(T_emergency_fire_D1), Frame(T_emergency_event_D1), Frame(T_emergency_mt_D2),
    Frame(T_heartbeat), Frame(T_heartbeat_key_D1), Frame(T_test_fail_D1),
    Frame(T_battery_D2), L_noise, L_blank, L_truncated, L_undecodable }

Next ==
  \/ (handles = <<>> /\ AsyncStartCall)
  \/ AsyncStartOpened
  \/ AsyncStartFailed
  \/ \E i \in 1..Len(tasks) : ReaderWakes(i)
  \/ \E i \in 1..Len(tasks) : ReaderReadsLine(i)
  \/ \E i \in 1..Len(tasks) : ReaderReadFails(i)
  \/ \E line \in MessageFrames : Feed(line)
  \/ Tick(HEARTBEAT_TIMEOUT)
  \/ AsyncUpdateData
  \/ \E a \in AddDeviceCalls :
       /\ _devices = <<>> /\ fed = 0 /\ handles # <<>>
       /\ AddDevice(a.device_id, a.model_id, a.name, a.location)

Spec == Init /\ [][Next]_vars

LiveFrames == { Frame(T_heartbeat), Frame(T_heartbeat_key_D1), Frame(T_pairing), L_noise }

NextLive ==
  \/ (handles = <<>> /\ AsyncStartCall)
  \/ AsyncStartOpened
  \/ AsyncStartFailed
  \/ \E i \in 1..Len(tasks) : ReaderWakes(i)
  \/ \E i \in 1..Len(tasks) : ReaderReadsLine(i)
  \/ \E i \in 1..Len(tasks) : ReaderReadFails(i)
  \/ \E line \in LiveFrames : Feed(line)
  \/ \E dt \in {1, HEARTBEAT_TIMEOUT - 1} : Tick(dt)
  \/ AsyncUpdateData

SpecLive == Init /\ [][NextLive]_vars

LifeFrames == { Frame(T_heartbeat), L_noise }
LifeCommands == { CMD_TEST_CO, CMD_START_PAIRING }

NextLife ==
  \/ AsyncStartCall
  \/ AsyncStartOpened
  \/ AsyncStartFailed
  \/ AsyncStopCall
  \/ AsyncStopJoined
  \/ AsyncStopClosed
  \/ \E command \in LifeCommands : AsyncSendRefused(command)
  \/ \E command \in LifeCommands : AsyncSendCall(command)
  \/ AsyncSendWritten
  \/ AsyncSendWriteFailed
  \/ \E i \in 1..Len(tasks) : ReaderWakes(i)
  \/ \E i \in 1..Len(tasks) : ReaderReadsLine(i)
  \/ \E i \in 1..Len(tasks) : ReaderReadsNothing(i)
  \/ \E i \in 1..Len(tasks) : ReaderReadFails(i)
  \/ \E take \in BOOLEAN : OrphanReadline(take)
  \/ \E line \in LifeFrames : fed < MaxLifeLines /\ Feed(line)

SpecLife == Init /\ [][NextLife]_vars

\* add_device calls made while the bridge runs
RegistryCalls ==
  AddDeviceCalls \cup
  { [device_id |-> S_D1, model_id |-> S_1104, name |-> None, location |-> None] }

\* frames that create devices, with and without a model code
RegistryFrames ==
  { Frame(T_status_D1), Frame(T_status_both_ids), Frame(T_empty_deviceId),
    Frame(T_unknown_model_D2), Frame(T_missing_D1) }

\* the bridge is stopped and started again, one call after the other
NextReg ==
  \/ (~_running /\ stop_pc = "idle" /\ AsyncStartCall)
  \/ AsyncStartOpened
  \/ AsyncStartFailed
  \/ (_running /\ AsyncStopCall)
  \/ AsyncStopJoined
  \/ AsyncStopClosed
  \/ \E i \in 1..Len(tasks) : ReaderWakes(i)
  \/ \E i \in 1..Len(tasks) : ReaderReadsLine(i)
  \/ \E i \in 1..Len(tasks) : ReaderReadsNothing(i)
  \/ \E take \in BOOLEAN : OrphanReadline(take)
  \/ \E line \in RegistryFrames : Feed(line)
  \/ AsyncUpdateData
  \/ \E a \in RegistryCalls :
       handles # <<>> /\ AddDevice(a.device_id, a.model_id, a.name, a.location)

SpecReg == Init /\ [][NextReg]_vars

\* the frames of a run from setup to unload
EntryFrames ==
  { Frame(T_heartbeat), Frame(T_heartbeat_key_D1), Frame(T_missing_bridge),
    Frame(T_status_D1), Frame(T_emergency_fire_D1), Frame(T_list_id),
    L_noise, L_truncated }

\* the life of one config entry: async_setup_entry starts the coordinator
\* once and registers the configured devices, async_unload_entry stops it
NextEntry ==
  \/ (handles = <<>> /\ AsyncStartCall)
  \/ AsyncStartOpened
  \/ AsyncStartFailed
  \/ (_running /\ AsyncStopCall)
  \/ AsyncStopJoined
  \/ AsyncStopClosed
  \/ \E i \in 1..Len(tasks) : ReaderWakes(i)
  \/ \E i \in 1..Len(tasks) : ReaderReadsLine(i)
  \/ \E i \in 1..Len(tasks) : ReaderReadFails(i)
  \/ \E take \in BOOLEAN : OrphanReadline(take)
  \/ \E line \in EntryFrames : Feed(line)
  \/ Tick(HEARTBEAT_TIMEOUT)
  \/ AsyncUpdateData
  \/ AsyncSendRefused(CMD_TEST_ALL)
  \/ AsyncSendCall(CMD_TEST_ALL)
  \/ AsyncSendWritten
  \/ AsyncSendWriteFailed
  \/ \E a \in AddDeviceCalls :
       /\ _devices = <<>> /\ fed = 0 /\ handles # <<>>
       /\ AddDevice(a.device_id, a.model_id, a.name, a.location)

SpecEntry == Init /\ [][NextEntry]_vars

(***************************************************************************)
(* Properties.  A step "dispatches" a frame when a reader task takes it    *)
(* from the input buffer and runs it through decode, strip and             *)
(* _process_line.                                                          *)
(***************************************************************************)
S_wisafe2_emergency == <<"w", "i", "s", "a", "f", "e", "2", "_", "e", "m", "e", "r", "g", "e", "n", "c", "y">>
S_wisafe2_device_missing == <<"w", "i", "s", "a", "f", "e", "2", "_", "d", "e", "v", "i", "c", "e", "_", "m", "i", "s", "s", "i", "n", "g">>
S_EMERGENCY_FIRE == <<"E", "M", "E", "R", "G", "E", "N", "C", "Y", ":", " ", "F", "I", "R", "E">>
S_EMERGENCY_unknown == <<"E", "M", "E", "R", "G", "E", "N", "C", "Y", ":", " ", "u", "n", "k", "n", "o", "w", "n">>

Dispatches == \E i \in 1..Len(tasks) : ReaderReadsLine(i)

\* the frame is a JSON object / the object it carries
IsJson(frame) == frame.utf8 /\ JsonValid(Strip(frame.raw))
ObjectOf(frame) == json_loads(Strip(frame.raw))

\* a step that dispatches a JSON object
DispatchesObject == Dispatches /\ IsJson(Head(rx))

\* a step that dispatches a message naming a device
DispatchesDeviceMessage ==
  /\ DispatchesObject
  /\ Truthy(MessageDeviceId(ObjectOf(Head(rx))))
  /\ MessageDeviceId(ObjectOf(Head(rx))) # PyList

\* the coordinator's attributes other than the stored raw line
messageState == <<_devices, _bridge_online, _last_heartbeat, _bridge_device,
                  _last_message, bus, published>>

\* C1: bridge_online is false while no heartbeat has been processed; a
\* processed heartbeat sets the time t of the last heartbeat to the current
\* time, nothing else changes t, and bridge_online is true exactly at the
\* times before t + 35 s (false at t + 35 s itself).
C1_BridgeOnline ==
  [][ /\ (DispatchesObject /\ IsHeartbeat(ObjectOf(Head(rx)))) => _last_heartbeat' = now
      /\ ~(DispatchesObject /\ IsHeartbeat(ObjectOf(Head(rx))))
            => _last_heartbeat' = _last_heartbeat
      /\ bridge_online = (_last_heartbeat # NoTime /\ now < _last_heartbeat + 35)
      /\ bridge_online' = (_last_heartbeat' # NoTime /\ now' < _last_heartbeat' + 35)
    ]_vars

C1_Witness ==
  /\ _last_heartbeat # NoTime
  /\ now = _last_heartbeat + 35
  /\ ~bridge_online

\* C2: right after a message that names a device and whose type is not
\* "missing" is processed, that device's is_online is true.
C2_OnlineAfterMessage ==
  [][ ( /\ DispatchesDeviceMessage
        /\ Truthy(MessageType(ObjectOf(Head(rx))))
        /\ MessageType(ObjectOf(Head(rx))) # S_missing )
        => _devices'[MessageDeviceId(ObjectOf(Head(rx)))].is_online
    ]_vars

\* C3: every processed message that names a device and has type "missing"
\* leaves the device offline and appends exactly one device-missing event
\* carrying the device's id and name to the bus.
C3_Missing ==
  [][ (DispatchesDeviceMessage /\ Get(ObjectOf(Head(rx)), "type") = S_missing)
        => LET id == MessageDeviceId(ObjectOf(Head(rx))) IN
           /\ id \in DOMAIN _devices'
           /\ _devices'[id].is_online = FALSE
           /\ bus' = Append(bus, [ event_type |-> S_wisafe2_device_missing,
                                   event_data |-> [ device_id   |-> id,
                                                    device_name |-> _devices'[id].name ] ])
    ]_vars

\* two missing messages for one device have been processed: two equal events
C3_Witness ==
  /\ Len(bus) = 2
  /\ bus[1] = bus[2]
  /\ bus[1].event_type = S_wisafe2_device_missing
  /\ ~_devices[bus[1].event_data.device_id].is_online

\* C4: the passage of time and the status-refresh poll leave the registry as
\* it is, and a dispatched frame leaves every device it does not name as it
\* is (a heartbeat-only message names none).
C4_DeviceFrame ==
  [][ /\ (now' # now \/ AsyncUpdateData) => _devices' = _devices
      /\ Dispatches =>
           \A d \in DOMAIN _devices :
              ~(IsJson(Head(rx)) /\ MessageDeviceId(ObjectOf(Head(rx))) = d)
                 => (d \in DOMAIN _devices' /\ _devices'[d] = _devices[d])
    ]_vars

\* the poll has marked the bridge offline by its timeout while a device last
\* seen at least as long ago is still online
C4_Witness ==
  /\ _last_heartbeat # NoTime
  /\ ~_bridge_online
  /\ \E d \in DOMAIN _devices :
        /\ _devices[d].is_online
        /\ _devices[d].last_seen # NoTime
        /\ now - _devices[d].last_seen >= 35

\* a frame that decodes to a non-empty line not beginning with "{"
IsPlainText(frame) ==
  /\ frame.utf8
  /\ Strip(frame.raw) # <<>>
  /\ Head(Strip(frame.raw)) # "{"

\* C5 as stated: a non-empty line not beginning with "{" leaves every
\* attribute of the coordinator unchanged, the stored raw data included.
C5_PlainTextChangesNothing ==
  [][ (Dispatches /\ IsPlainText(Head(rx))) => UNCHANGED coordVars ]_vars

\* C5 amended: such a line, stripped, is stored as the raw data and leaves every other
\* attribute unchanged, fires no event and publishes nothing.
C5_PlainTextStoresRawOnly ==
  [][ (Dispatches /\ IsPlainText(Head(rx)))
        => /\ UNCHANGED messageState
           /\ _raw_data' = Strip(Head(rx).raw)
    ]_vars

C5_Witness == _raw_data = S_noise /\ _last_message = None /\ published = <<>>

\* a frame that decodes to a line beginning with "{" that is not JSON
IsMalformed(frame) ==
  /\ frame.utf8
  /\ Strip(frame.raw) # <<>>
  /\ Head(Strip(frame.raw)) = "{"
  /\ ~JsonValid(Strip(frame.raw))

\* C6: a line beginning with "{" that fails to parse creates or updates no
\* device, leaves the bridge's liveness unchanged, fires no event and
\* publishes nothing; the reader does not catch an exception from it: if it
\* pauses after the step, it is for the transport poll that follows.
C6_MalformedDiscarded ==
  [][ \A i \in 1..Len(tasks) :
        (ReaderReadsLine(i) /\ IsMalformed(Head(rx)))
          => /\ UNCHANGED messageState
             /\ tasks'[i].pc \in {"readline", "sleep", "pause", "done"}
             /\ tasks'[i].pc = "pause" => tasks'[i].err = "in_waiting"
    ]_vars

C6_Witness ==
  /\ _raw_data # None
  /\ Head(_raw_data) = "{"
  /\ ~JsonValid(_raw_data)
  /\ \E i \in 1..Len(tasks) : tasks[i].pc \in {"readline", "sleep"}

\* C7: async_send_command returns False and writes nothing when the
\* transport is absent or the bridge is not running; otherwise it hands the
\* code's bytes to one write on the current handle, and that write either
\* appends exactly those bytes once and the call returns True, or fails and
\* the call returns False with nothing written and no second attempt.
C7_SendCommand ==
  [][ /\ (send_pc = "idle" /\ send_pc' = "idle" /\ send_ret' # send_ret)
           => /\ _serial = NoHandle \/ ~_running
              /\ send_ret' = "False"
              /\ tx' = tx
      /\ (send_pc = "idle" /\ send_pc' = "writing")
           => /\ _serial # NoHandle /\ _running
              /\ send_job'.h = _serial
              /\ send_job'.bytes \in {<<49, 126>>, <<57, 126>>}
              /\ tx' = tx
      /\ (send_pc = "writing" /\ send_pc' = "idle")
           => \/ send_ret' = "True" /\ tx' = Append(tx, send_job.bytes)
              \/ send_ret' = "False" /\ tx' = tx
      /\ tx' # tx => (send_pc = "writing" /\ send_pc' = "idle")
      /\ send_ret' \in {"none", "pending", "True", "False"}
    ]_vars

\* a command was written, the bridge was stopped, and a later command was refused
C7_Witness ==
  /\ tx # <<>>
  /\ _serial = NoHandle
  /\ ~_running
  /\ send_pc = "idle"
  /\ send_ret = "False"

\* C8: every processed message that names a device and has type "emergency"
\* sets the device's last_event to "EMERGENCY: " followed by the event type
\* ("unknown" when absent), whatever `event` key it carries, and appends
\* exactly one emergency event with device id, event type, name and location
\* to the bus; no step other than the dispatch of an emergency message
\* appends an emergency event.
C8_Emergency ==
  [][ /\ (DispatchesDeviceMessage /\ Get(ObjectOf(Head(rx)), "type") = S_emergency)
           => LET id == MessageDeviceId(ObjectOf(Head(rx)))
                  et == IF "event_type" \in DOMAIN ObjectOf(Head(rx))
                        THEN ObjectOf(Head(rx)).event_type ELSE S_unknown
              IN  /\ _devices'[id].last_event = S_EMERGENCY_prefix \o PyStr(et)
                  /\ bus' = Append(bus, [ event_type |-> S_wisafe2_emergency,
                                          event_data |->
                                            [ device_id   |-> id,
                                              event_type  |-> et,
                                              device_name |-> _devices'[id].name,
                                              location    |-> _devices'[id].location ] ])
      /\ (bus' # bus /\ bus' # <<>> /\ bus'[Len(bus')].event_type = S_wisafe2_emergency)
           => /\ DispatchesDeviceMessage
              /\ MessageType(ObjectOf(Head(rx))) = S_emergency
              /\ Len(bus') = Len(bus) + 1
    ]_vars

\* two identical FIRE emergencies have been processed: two events
C8_Witness ==
  /\ Len(bus) = 2
  /\ bus[1] = bus[2]
  /\ bus[1].event_type = S_wisafe2_emergency
  /\ bus[1].event_data.event_type = S_FIRE
  /\ _devices[bus[1].event_data.device_id].last_event = S_EMERGENCY_FIRE

\* C9: after a message that names a device and has type "status",
\* battery_status and base_status are the message's `battery` and `base`,
\* "unknown" for an absent key, whatever the device held before.
C9_Status ==
  [][ (DispatchesDeviceMessage /\ Get(ObjectOf(Head(rx)), "type") = S_status)
        => LET id  == MessageDeviceId(ObjectOf(Head(rx)))
               obj == ObjectOf(Head(rx))
           IN  /\ _devices'[id].battery_status =
                    IF "battery" \in DOMAIN obj THEN obj.battery ELSE S_unknown
               /\ _devices'[id].base_status =
                    IF "base" \in DOMAIN obj THEN obj.base ELSE S_unknown
    ]_vars

\* a status message without keys has reset the values a first one had set
C9_Witness ==
  /\ Len(published) = 2
  /\ published[1] = O_status_D1
  /\ published[2] = O_status_bare_D1
  /\ _devices[S_D1].battery_status = S_unknown
  /\ _devices[S_D1].base_status = S_unknown

\* the condition under which a device has a problem
HasProblem(device) ==
  \/ Lower(device.battery_status) = S_low
  \/ Lower(device.base_status) \in {S_removed, S_off_base}
  \/ /\ device.last_test_result # None
     /\ Contains(S_fail, Lower(device.last_test_result))

\* C10: for every device of the registry the problem predicate is True when
\* the battery is low, the unit is off its base or the last test result
\* contains "fail", and False otherwise (False for a device just created).
C10_ProblemPredicate ==
  \A id \in DOMAIN _devices :
     ProblemSensor_is_on(_devices[id]) = PyBool(HasProblem(_devices[id]))

\* a step that creates the device stored under id
Creates(id) == id \notin DOMAIN _devices /\ id \in DOMAIN _devices'

\* C11: a device created, by a message or by add_device, with a model code
\* of the model table has the table's display name and type as its name and
\* category ("1103": "WST-630", "combined").
C11_CreatedFromTable ==
  [][ \A id \in DOMAIN _devices' :
        (Creates(id) /\ _devices'[id].model_id \in DOMAIN DEVICE_MODELS)
          => /\ _devices'[id].name = DEVICE_MODELS[_devices'[id].model_id].name
             /\ _devices'[id].device_type = DEVICE_MODELS[_devices'[id].model_id].type
    ]_vars

\* C12: in the state right after a status-refresh poll, taken at any moment
\* from the initial state on, the cached _bridge_online and the bridge
\* device's is_online both equal the computed bridge_online.
C12_MirrorAfterPoll ==
  LET c == _async_update_data(Coord, now)
      computed == bridge_online_at(c._last_heartbeat, now)
  IN  /\ c._bridge_online = computed
      /\ c._bridge_device.is_online = computed

\* C13: a dispatched line that parses as a JSON object is propagated to the
\* update listeners exactly once, by the step that dispatches it; a line that
\* is discarded is not propagated.
C13_OnePropagation ==
  [][ Dispatches =>
        IF IsJson(Head(rx))
        THEN published' = Append(published, ObjectOf(Head(rx)))
        ELSE published' = published
    ]_vars

\* C14 as stated: the first non-null spelling wins.  When `deviceId` is
\* present and not null the message is one for the device of that id, an
\* empty id included, so no other device is created or touched; a device the
\* message creates has the first non-null of `modelId` and `model_id`.
C14_FirstNonNull ==
  [][ DispatchesObject =>
        LET obj == ObjectOf(Head(rx))
            NonNull(k) == k \in DOMAIN obj /\ obj[k] # None
            model == IF NonNull("modelId") THEN obj["modelId"]
                     ELSE IF NonNull("model_id") THEN obj["model_id"] ELSE None
        IN  NonNull("deviceId") =>
              \A id \in DOMAIN _devices' :
                 /\ id # obj["deviceId"] => (id \in DOMAIN _devices /\ _devices'[id] = _devices[id])
                 /\ Creates(id) => _devices'[id].model_id = model
    ]_vars

\* C14 amended: the first truthy spelling wins.  The message is one for the
\* device named by `deviceId` unless that is absent, null, empty or false,
\* and then for the one named by `device_id`: that device is seen now and no
\* other device changes; a device the message creates has `modelId` as its
\* model code unless that is absent, null, empty or false, and then `model_id`.
C14_FirstTruthy ==
  [][ DispatchesObject =>
        LET obj == ObjectOf(Head(rx))
            Holds(k) == k \in DOMAIN obj /\ obj[k] \notin {None, <<>>, PyFalse}
            id == IF Holds("deviceId") THEN obj["deviceId"]
                  ELSE IF Holds("device_id") THEN obj["device_id"] ELSE None
            model == IF Holds("modelId") THEN obj["modelId"]
                     ELSE IF "model_id" \in DOMAIN obj THEN obj["model_id"] ELSE None
        IN  IF id = None THEN _devices' = _devices
            ELSE id # PyList =>
                   /\ id \in DOMAIN _devices'
                   /\ _devices'[id].last_seen = now
                   /\ Creates(id) => _devices'[id].model_id = model
                   /\ \A other \in DOMAIN _devices' \ {id} :
                        other \in DOMAIN _devices /\ _devices'[other] = _devices[other]
    ]_vars

\* a frame with an empty `deviceId` and `modelId` has created the device its
\* `device_id` names, with the model code of its `model_id`
C14_Witness ==
  /\ published # <<>>
  /\ published[Len(published)] = O_empty_deviceId
  /\ S_D2 \in DOMAIN _devices
  /\ _devices[S_D2].model_id = S_1104
  /\ _devices[S_D2].device_type = DEVICE_TYPE_HEAT

\* the bridge's liveness state
bridgeState == <<_last_heartbeat, _bridge_online, _bridge_device>>

\* C15: a dispatched message with type "heartbeat" or with a `heartbeat`
\* key, with or without a device id, sets the time of the last heartbeat and
\* the bridge device's last_seen to the current time and both online flags to
\* true; every other dispatched line, a message for a device called "bridge"
\* or of type "missing" included, leaves the bridge's liveness state as it is.
C15_BridgeLiveness ==
  [][ Dispatches =>
        IF /\ IsJson(Head(rx))
           /\ \/ "heartbeat" \in DOMAIN ObjectOf(Head(rx))
              \/ /\ "type" \in DOMAIN ObjectOf(Head(rx))
                 /\ ObjectOf(Head(rx)).type = S_heartbeat
        THEN /\ _last_heartbeat' = now
             /\ _bridge_online' = TRUE
             /\ _bridge_device' = [_bridge_device EXCEPT !.last_seen = now,
                                                         !.is_online = TRUE]
        ELSE bridgeState' = bridgeState
    ]_vars

\* a heartbeat carried by a device message has set the bridge online, and a
\* "missing" message for a device called "bridge" has left it online
C15_Witness ==
  /\ published = <<O_heartbeat_key_D1, O_missing_bridge>>
  /\ _last_heartbeat # NoTime
  /\ _bridge_online
  /\ _bridge_device.is_online
  /\ _bridge_device.last_seen = _last_heartbeat
  /\ ~_devices[S_bridge].is_online
  /\ _devices[S_D1].last_seen = _last_heartbeat

\* a reader task that has not ended
Live(task) == task.pc \notin {"done", "cancelled"}

\* async_stop has been called and has returned
Stopped == handles # <<>> /\ ~_running /\ stop_pc = "idle"

\* the attributes only the reader writes, when it dispatches a line
readerState == <<_raw_data, _last_message, bus, published, _last_heartbeat>>

\* C16: async_stop clears the running flag and cancels the reader task in
\* its first step, with the transport still open; it closes the transport
\* only once the reader task has ended, and clears the handle when close has
\* returned.  Once it has returned the reader task has ended, the transport
\* is absent and closed, and no step dispatches a line or changes a task or
\* what the reader writes, whatever was in flight.
C16_StopOrder ==
  [][ /\ (_running /\ ~_running') =>
            /\ \A i \in 1..Len(tasks) : ~Live(tasks'[i])
            /\ handles' = handles
            /\ _serial' = _serial
      /\ (handles' # handles /\ Len(handles') = Len(handles)) =>
            /\ ~_running
            /\ \A i \in 1..Len(tasks) : ~Live(tasks[i])
            /\ handles[_serial] = "open"
            /\ handles' = [handles EXCEPT ![_serial] = "closed"]
            /\ _serial' = NoHandle
      /\ Stopped' =>
            /\ \A i \in 1..Len(tasks') : ~Live(tasks'[i])
            /\ _serial' = NoHandle
            /\ \A h \in 1..Len(handles') : handles'[h] = "closed"
      /\ Stopped =>
            /\ ~Dispatches
            /\ tasks' = tasks
            /\ readerState' = readerState
    ]_vars

\* async_stop has returned while a line was waiting and the readline of the
\* cancelled reader was still in its worker thread: the line was never
\* dispatched
C16_Witness ==
  /\ Stopped
  /\ orphans # <<>>
  /\ fed > 0
  /\ _raw_data = None
  /\ published = <<>>
  /\ tasks[_read_task].pc = "cancelled"

\* an exception is raised in the step of task i: by readline(), or while the
\* line it returned is dispatched
FailsIn(i) ==
  \/ ReaderReadFails(i)
  \/ /\ ReaderReadsLine(i)
     /\ IsJson(Head(rx))
     /\ MessageDeviceId(ObjectOf(Head(rx))) = PyList

\* C17: a failure of readline() or an exception raised while a line is
\* dispatched leaves the reader task alive and pausing; a pausing task that
\* runs while the bridge is running goes back to polling the transport; a
\* task is done only when the running flag is off and is cancelled only by
\* the step of async_stop that clears the flag.
C17_ReaderSurvives ==
  [][ \A i \in 1..Len(tasks) :
        /\ FailsIn(i) => tasks'[i].pc = "pause" /\ tasks'[i].err # ""
        /\ (tasks[i].pc = "pause" /\ tasks'[i] # tasks[i] /\ _running') =>
              /\ tasks'[i].pc \in {"readline", "sleep", "pause"}
              /\ tasks'[i].pc = "readline" => (rx # <<>> /\ tasks'[i].h = _serial)
        /\ (Live(tasks[i]) /\ tasks'[i].pc = "done") => ~_running
        /\ (Live(tasks[i]) /\ tasks'[i].pc = "cancelled") => (_running /\ ~_running')
    ]_vars

\* the dispatch of a first line has raised, after the last message was
\* stored, and the line after it has been read and handed to the dispatcher
C17_Witness ==
  /\ _running
  /\ _last_message = J_list_id
  /\ _raw_data = S_noise
  /\ published = <<>>
  /\ fed = 2
  /\ rx = <<>>

\* a step in which a message leaves a trace: something only the reader
\* writes changes, or a device is seen
MessageEffect ==
  \/ readerState' # readerState
  \/ \E id \in DOMAIN _devices \cap DOMAIN _devices' :
        _devices'[id].last_seen # _devices[id].last_seen

\* the published objects that fired an event: device messages of type
\* "emergency" or "missing"
EventMessages(pub) ==
  { k \in 1..Len(pub) :
      /\ Truthy(MessageDeviceId(pub[k]))
      /\ MessageType(pub[k]) \in {S_emergency, S_missing} }

\* what an observer running between two steps can see of the dispatcher:
\* as many events as propagated messages that fire one, and a propagated
\* message for every device that was seen
Settled(devices, events, pub) ==
  /\ Len(events) = Cardinality(EventMessages(pub))
  /\ \A id \in DOMAIN devices :
        devices[id].last_seen # NoTime =>
           \E k \in 1..Len(pub) : MessageDeviceId(pub[k]) = id

\* C18: the dispatch of a line is one step of the scheduler.  A step in
\* which a message leaves a trace is the reader's, and no step of the poll,
\* of async_send_command, of add_device, of async_start or of async_stop
\* coincides with it; the step that marks a device as seen also does the
\* handling of the message's type and the propagation to the listeners, so
\* that no state shows the one without the other.
C18_AtomicDispatch ==
  [][ /\ MessageEffect =>
            /\ Dispatches
            /\ UNCHANGED <<now, fed, _serial, _read_task, _running, handles, orphans,
                           start_pc, start_ret, stop_pc, stop_h, sendVars>>
      /\ DispatchesDeviceMessage =>
            LET obj == ObjectOf(Head(rx))
                id  == MessageDeviceId(obj)
                typ == MessageType(obj)
            IN  /\ _devices'[id].last_seen = now
                /\ published' = Append(published, obj)
                /\ typ = S_status =>
                      /\ _devices'[id].battery_status = GetDefault(obj, "battery", S_unknown)
                      /\ _devices'[id].base_status = GetDefault(obj, "base", S_unknown)
                /\ typ = S_emergency =>
                      /\ Len(bus') = Len(bus) + 1
                      /\ _devices'[id].last_event =
                           S_EMERGENCY_prefix \o PyStr(GetDefault(obj, "event_type", S_unknown))
                /\ typ = S_missing =>
                      /\ Len(bus') = Len(bus) + 1
                      /\ ~_devices'[id].is_online
      /\ Settled(_devices', bus', published')
    ]_vars

\* an emergency has been dispatched while a command is being written: the
\* device's fields, the event and the propagated message are all there
C18_Witness ==
  /\ send_pc = "writing"
  /\ published = <<O_emergency_fire_D1>>
  /\ Len(bus) = 1
  /\ _devices[S_D1].last_event = S_EMERGENCY_FIRE
  /\ _devices[S_D1].last_seen = now
  /\ \E i \in 1..Len(tasks) : Live(tasks[i])

\* the fields of a device a message can write, and those add_device can
messageFields(device) ==
  <<device.last_seen, device.battery_status, device.base_status, device.last_event,
    device.last_test_result, device.is_online>>
staticFields(device) == <<device.name, device.location, device.model_id>>

\* C19: no step removes an id from the registry, every device is stored
\* under its own device_id, and a step that changes a known device is an
\* update of that device: a message leaves its name, location, model code
\* and category, and every status field it does not name, as they were;
\* add_device leaves everything learnt from messages, and the category, as
\* it was.
C19_DevicesPersist ==
  [][ /\ DOMAIN _devices \subseteq DOMAIN _devices'
      /\ \A id \in DOMAIN _devices' : _devices'[id].device_id = id
      /\ \A id \in DOMAIN _devices :
           LET old == _devices[id]
               new == _devices'[id]
           IN  new # old =>
                 /\ new.device_type = old.device_type
                 /\ IF Dispatches
                    THEN LET obj == ObjectOf(Head(rx))
                             typ == MessageType(obj)
                         IN  /\ staticFields(new) = staticFields(old)
                             /\ new.battery_status # old.battery_status =>
                                   ("battery" \in DOMAIN obj \/ typ = S_status)
                             /\ new.base_status # old.base_status =>
                                   ("base" \in DOMAIN obj \/ typ = S_status)
                             /\ new.last_event # old.last_event =>
                                   ("event" \in DOMAIN obj \/ typ = S_emergency)
                             /\ new.last_test_result # old.last_test_result =>
                                   ("test_result" \in DOMAIN obj \/ typ = S_test)
                             /\ new.is_online # old.is_online => typ = S_missing
                    ELSE messageFields(new) = messageFields(old)
    ]_vars

\* a device discovered from a message has been named by add_device and has
\* kept what the message said, over a stop and a second start of the bridge
C19_Witness ==
  /\ Len(handles) = 2
  /\ handles[1] = "closed"
  /\ S_D1 \in DOMAIN _devices
  /\ _devices[S_D1].name = S_Kitchen_Alarm
  /\ _devices[S_D1].location = S_Hall
  /\ _devices[S_D1].device_type = DEVICE_TYPE_COMBINED
  /\ _devices[S_D1].battery_status = S_low
  /\ _devices[S_D1].last_seen # NoTime

\* C20: no step changes the model code or the category of a device that is
\* already in the registry, and every device whose model code is in the model
\* table has the category the table gives for that code.
C20_IdentityFixed ==
  [][ /\ \A id \in DOMAIN _devices \cap DOMAIN _devices' :
           /\ _devices'[id].model_id = _devices[id].model_id
           /\ _devices'[id].device_type = _devices[id].device_type
      /\ \A id \in DOMAIN _devices' :
           _devices'[id].model_id \in DOMAIN DEVICE_MODELS =>
              _devices'[id].device_type = DEVICE_MODELS[_devices'[id].model_id].type
    ]_vars

\* the executor jobs running on handle h: the readline() of a reader task,
\* one whose task was cancelled, the write() of async_send_command and the
\* close() of async_stop
InFlight(h) ==
  Cardinality({ i \in 1..Len(tasks) : tasks[i].pc = "readline" /\ tasks[i].h = h })
  + Cardinality({ k \in 1..Len(orphans) : orphans[k].h = h })
  + (IF send_pc = "writing" /\ send_job.h = h THEN 1 ELSE 0)
  + (IF stop_pc = "closing" /\ stop_h = h THEN 1 ELSE 0)

\* C21: at most one executor job runs on a transport handle at any time: no
\* write() beside a readline(), and no close() beside a readline() or a
\* write().
C21_OneOffloadedOp == \A h \in 1..Len(handles) : InFlight(h) <= 1

\* C22: after an emergency message with event_type "FIRE", for which an
\* emergency event with that event_type is fired, and after an emergency
\* message whose `event` is "FIRE EMERGENCY", the smoke/fire predicate of the
\* device is true.
C22_FireActive ==
  [][ (DispatchesDeviceMessage /\ MessageType(ObjectOf(Head(rx))) = S_emergency)
        => LET obj == ObjectOf(Head(rx))
               id  == MessageDeviceId(obj)
           IN  /\ ( /\ Len(bus') = Len(bus) + 1
                    /\ bus'[Len(bus')].event_type = S_wisafe2_emergency
                    /\ bus'[Len(bus')].event_data.event_type = S_FIRE )
                  => SmokeSensor_is_on(_devices'[id])
               /\ ("event" \in DOMAIN obj /\ obj.event = S_FIRE_EMERGENCY)
                  => SmokeSensor_is_on(_devices'[id])
    ]_vars

\* the reader tasks that have not ended, and the handles that are open
LiveTasks == { i \in 1..Len(tasks) : Live(tasks[i]) }
OpenHandles == { h \in 1..Len(handles) : handles[h] = "open" }

\* C23: whatever calls of async_start and async_stop have been made, at most
\* one reader task is live and at most one transport handle is open, and
\* when no call is in progress and the coordinator is not running, as after
\* async_stop has returned, no handle is open.
C23_OneTaskOneHandle ==
  /\ Cardinality(LiveTasks) <= 1
  /\ Cardinality(OpenHandles) <= 1
  /\ (~_running /\ start_pc = "idle" /\ stop_pc = "idle") => OpenHandles = {}
====
